---------------------------- MODULE Spec2Model ----------------------------
(***************************************************************************)
(* A model of the market-making engine: the Auto ladder planner            *)
(* (strategies/auto_mode.py, strategies/strategy_base.py), the MM control  *)
(* loop (mm_run.py) with its ladder venue (exchange/bn.py,                 *)
(* exchange/hyperliquid.py) and the passive hedger (hedge/hedge.py).       *)
(*                                                                         *)
(* Python floats are modelled as fixed-point integers in units of 1/FP:    *)
(* x * y is Mul(x, y), x / y is Div(x, y).  Counts (bin numbers, order     *)
(* numbers, ids) are plain integers.                                       *)
(***************************************************************************)
EXTENDS Integers, Sequences, FiniteSets, TLC

(***************************************************************************)
(* Fixed-point arithmetic                                                  *)
(***************************************************************************)
FP == 1000

Dec(n, d) == (n * FP) \div d

Mul(a, b) == (a * b) \div FP

Div(a, b) == (a * FP) \div b

Min2(a, b) == IF a <= b THEN a ELSE b

Max2(a, b) == IF a >= b THEN a ELSE b

Abs(a) == IF a >= 0 THEN a ELSE -a

RECURSIVE Pow(_, _)
Pow(r, k) == IF k = 0 THEN FP ELSE Mul(Pow(r, k - 1), r)

RECURSIVE SumTo(_, _)
SumTo(f, n) == IF n = 0 THEN 0 ELSE f[n] + SumTo(f, n - 1)

(***************************************************************************)
(* State                                                                   *)
(***************************************************************************)
VARIABLES
    cfg,                   \* the constructor arguments of the strategy
    mid_price,             \* StrategyBase.mid_price
    cur_inventory_amount,  \* StrategyBase.cur_inventory_amount
    cur_quote_amount,      \* StrategyBase.cur_quote_amount
    iqv_ratio,             \* StrategyBase.iqv_ratio
    iqv_move_ratio,        \* StrategyBase.iqv_move_ratio
    vol,                   \* AutoMode.vol
    vol_arg,               \* the argument of the last update_vol call, NoArg if none
    bins,                  \* StrategyBase.bins
    regime,                \* the branch compute_current_bins took last
    marketplace,           \* MarketMakerRunner.marketplace
    mm_pc,                 \* where the mm task stands in its round
    round_index,           \* mm's round_index
    oids,                  \* MarketMakerRunner.oids
    inventory_amount,      \* MarketMakerRunner.inventory_amount
    quote_amount,          \* MarketMakerRunner.quote_amount
    r_iqv_move_ratio,      \* MarketMakerRunner.iqv_move_ratio
    filled_status,         \* mm's filled_status, the reply of the last fill query
    nr,                    \* mm's nr_orders, the batch of the round
    book,                  \* the ladder venue: every order it accepted, by order id
    h_price,               \* Hedge.price
    h_cur_inventory_amount,\* Hedge.cur_inventory_amount
    h_cur_quote_amount,    \* Hedge.cur_quote_amount
    h_iqv_move_ratio,      \* Hedge.iqv_move_ratio
    hcfg,                  \* the constructor arguments of the hedger
    ph_pc,                 \* where the passive_hedge_monitor task stands
    ph_ticks,              \* the refresh sleeps passive_hedge_monitor has finished
    is_on_p_hedge,         \* Hedge.is_on_p_hedge
    passive_hedge_size,    \* Hedge.passive_hedge_size
    p_hedge_long_trigger_price,   \* Hedge.p_hedge_long_trigger_price
    p_hedge_short_trigger_price,  \* Hedge.p_hedge_short_trigger_price
    passive_hedge_long_orderId,   \* Hedge.passive_hedge_long_orderId
    passive_hedge_short_orderId,  \* Hedge.passive_hedge_short_orderId
    passive_hedge_sp_orderId,     \* Hedge.passive_hedge_sp_orderId
    ph_filled_price,       \* passive_hedge_monitor's _filled_price
    ph_fault,              \* the exception that ended passive_hedge_monitor, "none" if none
    pbook,                 \* the hedge venue: every trigger order it accepted, by id
    is_closed,             \* MarketMakerRunner.is_closed
    feed_is_closed,        \* FeedsConnector.is_closed
    is_hedge_live,         \* Hedge.is_hedge_live
    spot_price,            \* FeedsConnector.spot_price
    top_depth,             \* FeedsConnector.top_depth: <<>> for None, else <<best bid, best ask>>
    feed_pc,               \* where each monitor task of the connector stands
    feed_retry,            \* each monitor's retry counter
    vm_pc,                 \* where the vol_monitor task stands
    vm_ticks,              \* the iterations vol_monitor has gone through
    vm_check,              \* what price_security_check returned to vol_monitor last
    vol_his_price,         \* MarketMakerRunner.vol_his_price
    vc_series,             \* the price series of the last VolatilityEstimator.update call
    h_init_iqv_ratio,      \* Hedge.init_iqv_ratio
    ah_pc,                 \* where the active_hedge_monitor task stands
    ah_ticks,              \* the sleeps active_hedge_monitor has finished
    active_hedge_size,     \* Hedge.active_hedge_size
    ah_execute_size,       \* active_hedge_monitor's _execute_size
    ah_fault,              \* the exception that ended active_hedge_monitor, "none" if none
    gtx,                   \* the locals of the put_perp_gtx_order call in progress
    perp_position,         \* the hedge venue: positionAmt of the symbol
    aorders,               \* the hedge venue: every GTX and market order it accepted
    main_pc,               \* where MarketMakerRunner.main stands
    lp_pc                  \* where the live_price_monitor task stands

stratVars == <<cfg, mid_price, cur_inventory_amount, cur_quote_amount, iqv_ratio,
               iqv_move_ratio, vol, vol_arg, bins, regime>>

mmVars == <<marketplace, mm_pc, round_index, oids, inventory_amount, quote_amount,
            r_iqv_move_ratio, filled_status, nr, book>>

snapVars == <<h_price, h_cur_inventory_amount, h_cur_quote_amount, h_iqv_move_ratio>>

phVars == <<hcfg, ph_pc, ph_ticks, is_on_p_hedge, passive_hedge_size,
            p_hedge_long_trigger_price, p_hedge_short_trigger_price,
            passive_hedge_long_orderId, passive_hedge_short_orderId,
            passive_hedge_sp_orderId, ph_filled_price, ph_fault, pbook>>

ctlVars == <<is_closed, feed_is_closed, is_hedge_live>>

feedVars == <<spot_price, top_depth, feed_pc, feed_retry>>

volVars == <<vm_pc, vm_ticks, vm_check, vol_his_price, vc_series>>

ahVars == <<h_init_iqv_ratio, ah_pc, ah_ticks, active_hedge_size, ah_execute_size,
            ah_fault, gtx, perp_position, aorders>>

mainVars == <<main_pc, lp_pc>>

taskVars == <<volVars, ahVars, mainVars>>

envVars == <<ctlVars, feedVars, taskVars>>

vars == <<stratVars, mmVars, snapVars, phVars, envVars>>

NoArg == -1

None == 0

(***************************************************************************)
(* strategies/strategy_base.py                                             *)
(***************************************************************************)
\* bin_step / 10000
bin_step_decimal(c) == Dec(c.bin_step, 10000)

ask_bin_nums(c) == c.price_up_pct_limit \div bin_step_decimal(c)

bid_bin_nums(c) == c.price_down_pct_limit \div bin_step_decimal(c)

init_iqv_ratio(c) ==
    Div(Mul(c.init_inventory_amount, c.init_price),
        Mul(c.init_inventory_amount, c.init_price) + c.init_quote_amount)

\* _compute_iqv_ratio: the new iqv_ratio
compute_iqv_ratio(price, inv, quote) ==
    LET cur_inventory_value == Mul(inv, price)
        total_value == cur_inventory_value + quote
    IN  IF total_value = 0 THEN 0 ELSE Div(cur_inventory_value, total_value)

\* _compute_iqv_ratio: the new iqv_move_ratio
compute_iqv_move_ratio(c, iqv) == Div(iqv - init_iqv_ratio(c), init_iqv_ratio(c))

compute_buy_size_multiplier_wrongden(c, move) ==
    IF move < c.inventory_rb_iqv_ratio THEN FP
    ELSE IF move >= c.iqv_up_limit THEN 0
    ELSE FP - Div(move - c.inventory_rb_iqv_ratio, c.iqv_up_limit)

compute_buy_size_multiplier(c, move) ==
    IF move < c.inventory_rb_iqv_ratio THEN FP
    ELSE IF move >= c.iqv_up_limit THEN 0
    ELSE FP - Div(move - c.inventory_rb_iqv_ratio,
                  c.iqv_up_limit - c.inventory_rb_iqv_ratio)

compute_sell_size_multiplier(c, move) ==
    IF move > c.quote_rb_iqv_ratio THEN FP
    ELSE IF move <= c.iqv_down_limit THEN 0
    ELSE FP - Div(c.quote_rb_iqv_ratio - move,
                  c.quote_rb_iqv_ratio - c.iqv_down_limit)

(***************************************************************************)
(* strategies/auto_mode.py                                                 *)
(***************************************************************************)
\* the default of compute_current_bins' decay_rate parameter, 0.95
decay_rate == Dec(95, 100)

\* epsilon = 1e-6 of the BidAsk branch (below the resolution when FP < 10^6)
epsilon == Dec(1, 1000000)

clamp_nomin(c, size) == Min2(size, c.max_order_size)

\* min(max(size, min_order_size), max_order_size)
clamp(c, size) == Min2(Max2(size, c.min_order_size), c.max_order_size)

\* int(live_order_nums / 2)
side_cap(c) == c.live_order_nums \div 2

\* One side's loop: bin i is appended when its size is positive, and the loop
\* breaks as soon as the side holds int(live_order_nums / 2) bins.
RECURSIVE side_loop(_, _, _, _, _)
side_loop(prices, sizes, i, acc, cap) ==
    IF i > Len(sizes) THEN acc
    ELSE LET acc2 == IF sizes[i] > 0
                     THEN Append(acc, <<prices[i], sizes[i]>>)
                     ELSE acc
         IN  IF Len(acc2) >= cap THEN acc2
             ELSE side_loop(prices, sizes, i + 1, acc2, cap)

\* offset = (i + 1) * step_ratio * current_price, for the 1-based bin k = i + 1
offset(c, k, price) == Mul(k * bin_step_decimal(c), price)

bid_prices(c, price) == [k \in 1..bid_bin_nums(c) |-> price - offset(c, k, price)]

ask_prices(c, price) == [k \in 1..ask_bin_nums(c) |-> price + offset(c, k, price)]

\* sum(decay_rate ** i for i in range(n))
decay_sum(n) == SumTo([k \in 1..n |-> Pow(decay_rate, k - 1)], n)

\* sum(1 / (decay_rate ** (i + 1) + epsilon) for i in range(n))
weight_sum(n) == SumTo([k \in 1..n |-> Div(FP, Pow(decay_rate, k) + epsilon)], n)

\* 1 / (decay_rate ** (i + 1) + epsilon) / weight_sum
weight(k, n) == Div(Div(FP, Pow(decay_rate, k) + epsilon), weight_sum(n))

\* the branch vol < lower (Curve profile)
curve_bins(c, price, inv, quote, buy_scaling, sell_scaling) ==
    LET bid_decay_sum == decay_sum(bid_bin_nums(c))
        ask_decay_sum == decay_sum(ask_bin_nums(c))
        quote_capacity == IF price > 0 THEN Div(quote, price) ELSE 0
        max_bid_size == IF bid_decay_sum > 0 THEN Div(quote_capacity, bid_decay_sum) ELSE 0
        max_ask_size == IF ask_decay_sum > 0 THEN Div(inv, ask_decay_sum) ELSE 0
        bid_sizes == [k \in 1..bid_bin_nums(c) |->
                        clamp(c, Mul(Mul(max_bid_size, Pow(decay_rate, k - 1)), buy_scaling))]
        ask_sizes == [k \in 1..ask_bin_nums(c) |->
                        clamp(c, Mul(Mul(max_ask_size, Pow(decay_rate, k - 1)), sell_scaling))]
    IN  [bids |-> side_loop(bid_prices(c, price), bid_sizes, 1, <<>>, side_cap(c)),
         asks |-> side_loop(ask_prices(c, price), ask_sizes, 1, <<>>, side_cap(c))]

\* the branch vol > upper (BidAsk profile)
bid_ask_bins(c, price, inv, quote, buy_scaling, sell_scaling) ==
    LET bp == bid_prices(c, price)
        bid_sizes == [k \in 1..bid_bin_nums(c) |->
                        clamp(c, Mul(Div(Mul(quote, weight(k, bid_bin_nums(c))), bp[k]),
                                     buy_scaling))]
        ask_sizes == [k \in 1..ask_bin_nums(c) |->
                        clamp(c, Mul(Mul(inv, weight(k, ask_bin_nums(c))), sell_scaling))]
    IN  [bids |-> side_loop(bp, bid_sizes, 1, <<>>, side_cap(c)),
         asks |-> side_loop(ask_prices(c, price), ask_sizes, 1, <<>>, side_cap(c))]

\* the else branch (Spot profile); mid_price is current_price after the update
spot_bins(c, price, inv, quote, buy_scaling, sell_scaling) ==
    LET quote_capacity == IF price > 0 THEN Div(quote, price) ELSE 0
        base_bid_size == quote_capacity \div bid_bin_nums(c)
        base_ask_size == inv \div ask_bin_nums(c)
        bid_sizes == [k \in 1..bid_bin_nums(c) |-> clamp(c, Mul(base_bid_size, buy_scaling))]
        ask_sizes == [k \in 1..ask_bin_nums(c) |-> clamp(c, Mul(base_ask_size, sell_scaling))]
    IN  [bids |-> side_loop(bid_prices(c, price), bid_sizes, 1, <<>>, side_cap(c)),
         asks |-> side_loop(ask_prices(c, price), ask_sizes, 1, <<>>, side_cap(c))]

regime_swapped(c, v) ==
    IF v > c.vol_upper_threshold THEN "bid_ask"
    ELSE IF v < c.vol_lower_threshold THEN "spot"
    ELSE "curve"

\* the if / elif / else over self.vol
select_regime(c, v) ==
    IF v < c.vol_lower_threshold THEN "curve"
    ELSE IF v > c.vol_upper_threshold THEN "bid_ask"
    ELSE "spot"

\* the ladder compute_current_bins stores in self.bins
ladder(c, v, price, inv, quote) ==
    LET move == compute_iqv_move_ratio(c, compute_iqv_ratio(price, inv, quote))
        buy_scaling == compute_buy_size_multiplier(c, move)
        sell_scaling == compute_sell_size_multiplier(c, move)
        r == select_regime(c, v)
    IN  IF r = "curve" THEN curve_bins(c, price, inv, quote, buy_scaling, sell_scaling)
        ELSE IF r = "bid_ask" THEN bid_ask_bins(c, price, inv, quote, buy_scaling, sell_scaling)
        ELSE spot_bins(c, price, inv, quote, buy_scaling, sell_scaling)

\* AutoMode.__init__ with the constructor arguments c
StrategyInit(c) ==
    /\ cfg = c
    /\ mid_price = c.init_price
    /\ cur_inventory_amount = c.init_inventory_amount
    /\ cur_quote_amount = c.init_quote_amount
    /\ iqv_ratio = init_iqv_ratio(c)
    /\ iqv_move_ratio = 0
    /\ vol = c.init_vol
    /\ vol_arg = NoArg
    /\ bins = [bids |-> <<>>, asks |-> <<>>]
    /\ regime = "none"

\* AutoMode.update_vol
update_vol(v) ==
    /\ vol' = v
    /\ vol_arg' = v
    /\ UNCHANGED <<cfg, mid_price, cur_inventory_amount, cur_quote_amount, iqv_ratio,
                   iqv_move_ratio, bins, regime>>

\* AutoMode.compute_current_bins with a positive price
compute_current_bins(price, inv, quote) ==
    /\ price > 0
    /\ mid_price' = price
    /\ cur_inventory_amount' = inv
    /\ cur_quote_amount' = quote
    /\ iqv_ratio' = compute_iqv_ratio(price, inv, quote)
    /\ iqv_move_ratio' = compute_iqv_move_ratio(cfg, compute_iqv_ratio(price, inv, quote))
    /\ regime' = select_regime(cfg, vol)
    /\ bins' = ladder(cfg, vol, price, inv, quote)
    /\ UNCHANGED <<cfg, vol, vol_arg>>

(***************************************************************************)
(* mm_run.py, step 6: the orders of a round                                *)
(***************************************************************************)
\* for ask_bin, bid_bin in zip(bins['asks'], bins['bids']): append SELL, BUY;
\* break once len(nr_orders) >= mm_live_order_nums
RECURSIVE emit_loop(_, _, _, _, _)
emit_loop(asks, bids, i, acc, live) ==
    IF i > Min2(Len(asks), Len(bids)) THEN acc
    ELSE LET acc2 == acc \o << [side |-> "SELL", size |-> asks[i][2], price |-> asks[i][1]],
                               [side |-> "BUY", size |-> bids[i][2], price |-> bids[i][1]] >>
         IN  IF Len(acc2) >= live THEN acc2
             ELSE emit_loop(asks, bids, i + 1, acc2, live)

nr_orders(b, live) == emit_loop(b.asks, b.bids, 1, <<>>, live)

(***************************************************************************)
(* Configurations and inputs of the planner                                *)
(***************************************************************************)
BaseConfig ==
    [init_price |-> FP, init_inventory_amount |-> 10 * FP, init_quote_amount |-> 10 * FP,
     price_up_pct_limit |-> Dec(3, 100), price_down_pct_limit |-> Dec(2, 100),
     bin_step |-> 100, live_order_nums |-> 10,
     min_order_size |-> Dec(1, 10), max_order_size |-> 5 * FP,
     iqv_up_limit |-> Dec(6, 10), iqv_down_limit |-> -Dec(6, 10),
     inventory_rb_iqv_ratio |-> Dec(3, 10), quote_rb_iqv_ratio |-> -Dec(3, 10),
     vol_lower_threshold |-> 5 * FP, vol_upper_threshold |-> 25 * FP, init_vol |-> 15 * FP]

LiveNums == {0, 1, 2, 3, 10}

MinSizes == {0, Dec(1, 10), 5 * FP}

\* 0 <= min_order_size <= max_order_size, vol_lower_threshold <= vol_upper_threshold
PlanConfigs ==
    {[BaseConfig EXCEPT !.live_order_nums = l, !.min_order_size = m,
                        !.vol_upper_threshold = u, !.init_vol = (5 * FP + u) \div 2] :
        l \in LiveNums, m \in MinSizes, u \in {5 * FP, 25 * FP}}

\* inventory_rb <= iqv_up and iqv_down <= quote_rb, the equal cases included
SkewConfigs ==
    {[BaseConfig EXCEPT !.min_order_size = 0,
                        !.inventory_rb_iqv_ratio = rb, !.quote_rb_iqv_ratio = qb] :
        rb \in {0, Dec(3, 10), Dec(6, 10)}, qb \in {-Dec(3, 10), -Dec(6, 10)}}

Vols == {0, 5 * FP, 25 * FP, 30 * FP}

\* price > 0, inventory >= 0, quote >= 0
PlanInputs ==
    {<<p * FP, i * FP, q * FP>> : p \in {1, 2}, i \in {0, 5, 10, 40}, q \in {0, 10, 100}}

\* inventory + quote = MaxSkewSteps at price 1: iqv_move_ratio runs over -1, .., 1
MaxSkewSteps == 20

SkewInputs == {<<FP, i * FP, (MaxSkewSteps - i) * FP>> : i \in 0..MaxSkewSteps}

(***************************************************************************)
(* hedge/hedge.py: the portfolio snapshot                                  *)
(***************************************************************************)
\* Hedge.__init__: the fields update_portfolio_status writes
SnapInit(init_price, inv, quote) ==
    /\ h_price = init_price
    /\ h_cur_inventory_amount = inv
    /\ h_cur_quote_amount = quote
    /\ h_iqv_move_ratio = 0

\* Hedge.update_portfolio_status
update_portfolio_status(current_price, inv, quote, move) ==
    /\ h_price' = current_price
    /\ h_cur_inventory_amount' = inv
    /\ h_cur_quote_amount' = quote
    /\ h_iqv_move_ratio' = move

(***************************************************************************)
(* feeds/live: the spot price monitor and the top depth monitor of a       *)
(* connector, and the runner's view of what they deliver.                  *)
(***************************************************************************)
Monitors == {"spot", "depth"}

\* retry = 1000 in the source
FeedRetries == 2

\* FeedsConnector.__init__, no monitor task created yet
FeedInit ==
    /\ spot_price = None
    /\ top_depth = <<>>
    /\ feed_pc = [k \in Monitors |-> "new"]
    /\ feed_retry = [k \in Monitors |-> FeedRetries]

\* a connector whose monitors are connected and have delivered a and d
FeedShowing(a, d) ==
    /\ spot_price = a
    /\ top_depth = d
    /\ feed_pc = [k \in Monitors |-> "loop"]
    /\ feed_retry = [k \in Monitors |-> FeedRetries]

\* a connected feed around the price p
FeedAt(p) == FeedShowing(p, <<p - 1, p + 1>>)

\* MarketMakerRunner.mid_price
r_mid_price == IF top_depth # <<>> THEN (top_depth[1] + top_depth[2]) \div 2 ELSE None

\* MarketMakerRunner.aggr_price
r_aggr_price == IF spot_price # None /\ spot_price # 0 THEN spot_price ELSE None

\* not x, for a price that is None or a float
Falsy(x) == x = None \/ x = 0

max_price_gap == Dec(2, 100)

price_security_check_inclusive ==
    IF Falsy(r_aggr_price) \/ Falsy(r_mid_price) THEN FALSE
    ELSE Abs(r_aggr_price - r_mid_price) * FP <= max_price_gap * Abs(r_mid_price)

\* MarketMakerRunner.price_security_check: abs((aggr - mid) / mid) < 0.02
price_security_check ==
    IF Falsy(r_aggr_price) \/ Falsy(r_mid_price) THEN FALSE
    ELSE Abs(r_aggr_price - r_mid_price) * FP < max_price_gap * Abs(r_mid_price)

\* while retry > 0: create_connection, which raises or connects
MonitorConnect(k) ==
    /\ feed_pc[k] = "connect"
    /\ \/ feed_pc' = [feed_pc EXCEPT ![k] = "loop"] /\ UNCHANGED feed_retry
       \/ /\ feed_pc' = [feed_pc EXCEPT ![k] = "backoff"]
          /\ feed_retry' = [feed_retry EXCEPT ![k] = @ - 1]
    /\ UNCHANGED <<spot_price, top_depth>>
    /\ UNCHANGED <<stratVars, mmVars, snapVars, phVars, ctlVars, taskVars>>

\* while not self.is_closed: recv, store what came, sleep; recv may raise
MonitorRecv(k, ticks) ==
    /\ feed_pc[k] = "loop"
    /\ IF feed_is_closed
       THEN /\ feed_pc' = [feed_pc EXCEPT ![k] = "done"]
            /\ UNCHANGED <<spot_price, top_depth, feed_retry>>
       ELSE \/ /\ \E v \in ticks :
                   IF k = "spot" THEN spot_price' = v /\ UNCHANGED top_depth
                   ELSE top_depth' = v /\ UNCHANGED spot_price
               /\ UNCHANGED <<feed_pc, feed_retry>>
            \/ /\ feed_pc' = [feed_pc EXCEPT ![k] = "backoff"]
               /\ feed_retry' = [feed_retry EXCEPT ![k] = @ - 1]
               /\ UNCHANGED <<spot_price, top_depth>>
    /\ UNCHANGED <<stratVars, mmVars, snapVars, phVars, ctlVars, taskVars>>

\* asyncio.sleep(0.5) after an exception is over: the retry loop's head
MonitorRetry(k) ==
    /\ feed_pc[k] = "backoff"
    /\ feed_pc' = [feed_pc EXCEPT ![k] = IF feed_retry[k] > 0 THEN "connect" ELSE "gaveup"]
    /\ UNCHANGED <<spot_price, top_depth, feed_retry>>
    /\ UNCHANGED <<stratVars, mmVars, snapVars, phVars, ctlVars, taskVars>>

(***************************************************************************)
(* mm_run.py: vol_monitor                                                  *)
(***************************************************************************)
\* vol_his_price_window_limit, the maxlen of the price history
VolLimit == 2

MaxVolTicks == 2

\* MarketMakerRunner.__init__, vol_monitor not created yet
VolInit ==
    /\ vm_pc = "new"
    /\ vm_ticks = 0
    /\ vm_check = "none"
    /\ vol_his_price = <<>>
    /\ vc_series = <<>>

\* deque(maxlen).append
deque_append(q, x, maxlen) ==
    IF Len(q) < maxlen THEN Append(q, x) ELSE Tail(q) \o <<x>>

\* the head of vol_monitor: the close prices of the past windows (None when
\* the klines request failed five times, and extend(None) raises), then the
\* first sleep
VMStart(closes) ==
    /\ vm_pc = "klines"
    /\ \/ \E c \in closes : vol_his_price' = [k \in 1..VolLimit |-> c] /\ vm_pc' = "sleep"
       \/ vm_pc' = "raised" /\ UNCHANGED vol_his_price
    /\ UNCHANGED <<vm_ticks, vm_check, vc_series>>
    /\ UNCHANGED <<stratVars, mmVars, snapVars, phVars, ctlVars, feedVars, ahVars, mainVars>>

\* one iteration of vol_monitor after its sleep.  On a tick that passes the
\* check the price is appended and the estimator runs, and then reading
\* vol_client.vol raises AttributeError: VolatilityEstimator has no such field.
VMTick ==
    /\ vm_pc = "sleep"
    /\ vm_ticks < MaxVolTicks
    /\ IF is_closed
       THEN vm_pc' = "done" /\ UNCHANGED <<vm_ticks, vm_check, vol_his_price, vc_series>>
       ELSE /\ vm_ticks' = vm_ticks + 1
            /\ IF price_security_check
               THEN /\ vm_check' = "pass"
                    /\ vol_his_price' = deque_append(vol_his_price, r_aggr_price, VolLimit)
                    /\ vc_series' = vol_his_price'
                    /\ vm_pc' = "raised"
               ELSE /\ vm_check' = "reject"
                    /\ UNCHANGED <<vm_pc, vol_his_price, vc_series>>
    /\ UNCHANGED <<stratVars, mmVars, snapVars, phVars, ctlVars, feedVars, ahVars, mainVars>>

\* no put_perp_gtx_order call in progress
GTXIdle ==
    [pc |-> "idle", side |-> "BUY", quantity |-> 0, unfilled_amount |-> 0,
     try_times |-> 0, init_balance |-> 0, fetches |-> 0, max_try |-> 0, order |-> 0,
     ret |-> "none"]

\* Hedge.__init__: the active hedger's fields, on a venue with no position;
\* pc is "new" while the task is not created, "head" once it is
ActiveInit(pc, call) ==
    /\ h_init_iqv_ratio = Div(Mul(h_cur_inventory_amount, h_price),
                              Mul(h_cur_inventory_amount, h_price) + h_cur_quote_amount)
    /\ ah_pc = pc
    /\ ah_ticks = 0
    /\ active_hedge_size = 0
    /\ ah_execute_size = 0
    /\ ah_fault = "none"
    /\ gtx = call
    /\ perp_position = 0
    /\ aorders = <<>>

\* main at pc, the live_price_monitor task at lp
MainInit(pc, lp) ==
    /\ main_pc = pc
    /\ lp_pc = lp

\* main awaits its gather with the feed running; vol_monitor and the active
\* hedger are left where they start
TasksInit == VolInit /\ ActiveInit("new", GTXIdle) /\ MainInit("gather", "running")

(***************************************************************************)
(* mm_run.py: the MM loop, and the ladder venue behind exchange/bn.py and  *)
(* exchange/hyperliquid.py.  A venue call either goes through or fails     *)
(* (an exception the adapter catches, or an error reply).                  *)
(***************************************************************************)
MaxRounds == 3

Marketplaces == {"binance_spot", "hyperliquid"}

\* the mid price and the aggregate price the feed shows while mm runs
FeedMids == {FP}

FeedAggrs == {FP}

Resting(o) == book[o].status = "resting"

RestingIds == {o \in DOMAIN book : Resting(o)}

SeqToSet(q) == {q[k] : k \in 1..Len(q)}

\* MarketMakerRunner.__init__ and initialize_clients
MMInit(m) ==
    /\ marketplace = m
    /\ mm_pc = "cancel"
    /\ round_index = 0
    /\ oids = <<>>
    /\ inventory_amount = cfg.init_inventory_amount
    /\ quote_amount = cfg.init_quote_amount
    /\ r_iqv_move_ratio = 0
    /\ filled_status = <<>>
    /\ nr = <<>>
    /\ book = <<>>

\* the venue cancels every order of ids that rests
CancelOn(ids) ==
    [o \in DOMAIN book |->
        IF o \in ids /\ Resting(o) THEN [book[o] EXCEPT !.status = "canceled"] ELSE book[o]]

MMCancel_skip_query ==
    /\ mm_pc = "cancel"
    /\ \/ book' = CancelOn(IF marketplace = "binance_spot" THEN DOMAIN book
                           ELSE SeqToSet(oids))
       \/ book' = book
    /\ mm_pc' = "plan"
    /\ UNCHANGED <<marketplace, round_index, oids, inventory_amount, quote_amount,
                   r_iqv_move_ratio, filled_status, nr>>
    /\ UNCHANGED <<stratVars, snapVars, phVars, envVars>>

\* The loop head (while not self.is_closed) and step 1: cancel_all_spot_orders
\* (binance_spot) or batch_cancel_orders(oids) (hyperliquid, which sends
\* nothing when oids is empty); mm ignores the result.
MMCancel ==
    /\ mm_pc = "cancel"
    /\ IF is_closed
       THEN mm_pc' = "done" /\ book' = book
       ELSE /\ \/ book' = CancelOn(IF marketplace = "binance_spot" THEN DOMAIN book
                                   ELSE SeqToSet(oids))
               \/ book' = book
            /\ mm_pc' = IF Len(oids) > 0 THEN "query" ELSE "plan"
    /\ UNCHANGED <<marketplace, round_index, oids, inventory_amount, quote_amount,
                   r_iqv_move_ratio, filled_status, nr>>
    /\ UNCHANGED <<stratVars, snapVars, phVars, envVars>>

\* batch_query_orders: (oid, side, size, quote_size) of every queried order that
\* has filled, in the order of the queried ids
RECURSIVE FillsOf(_, _)
FillsOf(ids, k) ==
    IF k > Len(ids) THEN <<>>
    ELSE (IF book[ids[k]].status = "filled"
          THEN << [oid |-> ids[k], side |-> book[ids[k]].side,
                   size |-> book[ids[k]].size, quote_size |-> book[ids[k]].quote_size] >>
          ELSE <<>>) \o FillsOf(ids, k + 1)

\* Step 3: ic over filled_status.items()
RECURSIVE ic_of(_, _)
ic_of(fs, k) ==
    IF k > Len(fs) THEN 0
    ELSE (IF fs[k].side = "BUY" THEN fs[k].size ELSE -fs[k].size) + ic_of(fs, k + 1)

RECURSIVE qc_of_nosell(_, _)
qc_of_nosell(fs, k) ==
    IF k > Len(fs) THEN 0
    ELSE (IF fs[k].side = "BUY" THEN -fs[k].quote_size ELSE 0) + qc_of_nosell(fs, k + 1)

\* Step 3: qc over filled_status.items()
RECURSIVE qc_of(_, _)
qc_of(fs, k) ==
    IF k > Len(fs) THEN 0
    ELSE (IF fs[k].side = "BUY" THEN -fs[k].quote_size ELSE fs[k].quote_size)
         + qc_of(fs, k + 1)

\* Steps 2-4: the fill query for the stored oids (an empty reply when the venue
\* call fails) and the settlement of what it returned.
MMQuery ==
    /\ mm_pc = "query"
    /\ \/ filled_status' = FillsOf(oids, 1)
       \/ filled_status' = <<>>
    /\ inventory_amount' = inventory_amount + ic_of(filled_status', 1)
    /\ quote_amount' = quote_amount + qc_of(filled_status', 1)
    /\ mm_pc' = "plan"
    /\ UNCHANGED <<marketplace, round_index, oids, r_iqv_move_ratio, nr, book>>
    /\ UNCHANGED <<stratVars, snapVars, phVars, envVars>>

\* Step 5 and the first half of step 6: plan on the feed's mid price, push the
\* portfolio to the hedger, build nr_orders.  With a mid price that is not
\* positive _update_mid_price raises before the strategy has stored anything
\* (ValueError for a price <= 0, TypeError for the None of an empty depth),
\* and nothing between the call and the top of the mm coroutine catches it.
MMPlan ==
    /\ mm_pc = "plan"
    /\ IF r_mid_price > 0
       THEN /\ compute_current_bins(r_mid_price, inventory_amount, quote_amount)
            /\ r_iqv_move_ratio' = iqv_move_ratio'
            /\ update_portfolio_status(r_aggr_price, inventory_amount, quote_amount,
                                       iqv_move_ratio')
            /\ nr' = nr_orders(bins', cfg.live_order_nums)
            /\ mm_pc' = "place"
       ELSE /\ mm_pc' = "raised"
            /\ UNCHANGED <<r_iqv_move_ratio, nr>>
            /\ UNCHANGED <<stratVars, snapVars>>
    /\ UNCHANGED <<marketplace, round_index, oids, inventory_amount, quote_amount,
                   filled_status, book>>
    /\ UNCHANGED <<phVars, envVars>>

\* the orders of nr the venue accepted, appended to its book as resting
RECURSIVE Accepted(_, _, _)
Accepted(acc, k, rnd) ==
    IF k > Len(nr) THEN <<>>
    ELSE (IF k \in acc
          THEN << [round |-> rnd, side |-> nr[k].side, size |-> nr[k].size,
                   price |-> nr[k].price, quote_size |-> Mul(nr[k].size, nr[k].price),
                   status |-> "resting"] >>
          ELSE <<>>) \o Accepted(acc, k + 1, rnd)

MMPlace_raise_on_reject ==
    /\ mm_pc = "place"
    /\ \E acc \in SUBSET (1..Len(nr)) :
          /\ book' = book \o Accepted(acc, 1, round_index)
          /\ oids' = [k \in 1..(Len(book') - Len(book)) |-> Len(book) + k]
          /\ mm_pc' = IF acc = {} /\ Len(nr) > 0 THEN "raised" ELSE "sleep"
    /\ round_index' = round_index + 1
    /\ UNCHANGED <<marketplace, inventory_amount, quote_amount, r_iqv_move_ratio,
                   filled_status, nr>>
    /\ UNCHANGED <<stratVars, snapVars, phVars, envVars>>

\* Step 6: batch_put_spot_limit_orders / batch_put_limit_orders, post-only; the
\* adapter returns the ids of the orders the venue accepted.
MMPlace ==
    /\ mm_pc = "place"
    /\ \E acc \in SUBSET (1..Len(nr)) :
          /\ book' = book \o Accepted(acc, 1, round_index)
          /\ oids' = [k \in 1..(Len(book') - Len(book)) |-> Len(book) + k]
    /\ round_index' = round_index + 1
    /\ mm_pc' = "sleep"
    /\ UNCHANGED <<marketplace, inventory_amount, quote_amount, r_iqv_move_ratio,
                   filled_status, nr>>
    /\ UNCHANGED <<stratVars, snapVars, phVars, envVars>>

\* asyncio.sleep(mm_update_interval) is over
MMWake ==
    /\ mm_pc = "sleep"
    /\ round_index < MaxRounds
    /\ mm_pc' = "cancel"
    /\ UNCHANGED <<marketplace, round_index, oids, inventory_amount, quote_amount,
                   r_iqv_move_ratio, filled_status, nr, book>>
    /\ UNCHANGED <<stratVars, snapVars, phVars, envVars>>

\* the venue fills a resting ladder order
VenueFill ==
    /\ \E o \in RestingIds : book' = [book EXCEPT ![o].status = "filled"]
    /\ UNCHANGED <<marketplace, mm_pc, round_index, oids, inventory_amount, quote_amount,
                   r_iqv_move_ratio, filled_status, nr>>
    /\ UNCHANGED <<stratVars, snapVars, phVars, envVars>>

(***************************************************************************)
(* hedge/hedge.py: passive_hedge_monitor, and the hedge venue behind the   *)
(* trade client (exchange/bn.py).  An order id field holds None, the id of *)
(* an order the venue accepted, or the error text put_perp_trigger_order   *)
(* returns when the venue call raised (ErrText: true in a condition, not   *)
(* an integer).                                                             *)
(***************************************************************************)
ErrText == -1

MaxTicks == 3

\* round(quantity, step_size[symbol]), one decimal
qty_step == Dec(1, 10)

round_qty(q) == ((q + qty_step \div 2) \div qty_step) * qty_step

\* the shutdown flags as the constructors set them
CtlInit ==
    /\ is_closed = FALSE
    /\ feed_is_closed = FALSE
    /\ is_hedge_live = TRUE

\* Hedge.__init__: the passive hedger's fields
PassiveInit(h) ==
    /\ hcfg = h
    /\ ph_pc = "head"
    /\ ph_ticks = 0
    /\ is_on_p_hedge = FALSE
    /\ passive_hedge_size = 0
    /\ p_hedge_long_trigger_price = 0
    /\ p_hedge_short_trigger_price = 0
    /\ passive_hedge_long_orderId = None
    /\ passive_hedge_short_orderId = None
    /\ passive_hedge_sp_orderId = None
    /\ ph_filled_price = 0
    /\ ph_fault = "none"
    /\ pbook = <<>>

\* the fields a step of the passive task may leave alone
PHKeep(ids, sizing, venue) ==
    /\ UNCHANGED <<hcfg, ph_ticks, ph_fault>>
    /\ ids => UNCHANGED <<passive_hedge_long_orderId, passive_hedge_short_orderId,
                          passive_hedge_sp_orderId>>
    /\ sizing => UNCHANGED <<passive_hedge_size, p_hedge_long_trigger_price,
                             p_hedge_short_trigger_price>>
    /\ venue => UNCHANGED pbook
    /\ UNCHANGED <<stratVars, mmVars, snapVars, envVars>>

\* put_perp_trigger_order: the venue accepts the STOP_MARKET order, which rests
\* under a new id, or the call raises and the adapter returns its error text
NewTrigger(kind, side, qty, trigger) ==
    [kind |-> kind, side |-> side, qty |-> round_qty(qty), trigger |-> trigger,
     status |-> "NEW", executedQty |-> 0, avgPrice |-> 0]

PHHead_ignore_flag ==
    /\ ph_pc = "head"
    /\ ph_pc' = IF ~is_hedge_live THEN "done"
                ELSE IF hcfg.dual_sided_hedge /\ passive_hedge_long_orderId # None
                THEN "q_long"
                ELSE IF passive_hedge_short_orderId # None THEN "q_short"
                ELSE "decide"
    /\ UNCHANGED <<is_on_p_hedge, ph_filled_price>>
    /\ PHKeep(TRUE, TRUE, TRUE)

\* while self.is_hedge_live: if not self.is_on_p_hedge: ... else: ...
PHHead ==
    /\ ph_pc = "head"
    /\ ph_pc' = IF ~is_hedge_live THEN "done"
                ELSE IF is_on_p_hedge THEN "q_sp"
                ELSE IF hcfg.dual_sided_hedge /\ passive_hedge_long_orderId # None
                THEN "q_long"
                ELSE IF passive_hedge_short_orderId # None THEN "q_short"
                ELSE "decide"
    /\ UNCHANGED <<is_on_p_hedge, ph_filled_price>>
    /\ PHKeep(TRUE, TRUE, TRUE)

\* an exception of kind why reaches the except clause: the task ends
PHDie(why) ==
    /\ ph_pc' = "dead"
    /\ ph_fault' = why
    /\ UNCHANGED <<hcfg, ph_ticks, is_on_p_hedge, ph_filled_price, passive_hedge_size,
                   p_hedge_long_trigger_price, p_hedge_short_trigger_price,
                   passive_hedge_long_orderId, passive_hedge_short_orderId,
                   passive_hedge_sp_orderId, pbook>>
    /\ UNCHANGED <<stratVars, mmVars, snapVars, envVars>>

\* query_perp_order_status on the long trigger, and the FILLED branch up to the
\* stop-loss placement
PHQueryLong ==
    /\ ph_pc = "q_long"
    /\ \/ /\ passive_hedge_long_orderId = ErrText  \* int() raises ValueError
          /\ PHDie("int")
       \/ /\ passive_hedge_long_orderId # ErrText  \* the query raised: None['status'] is a TypeError
          /\ PHDie("query")
       \/ /\ passive_hedge_long_orderId # ErrText
          /\ LET st == pbook[passive_hedge_long_orderId] IN
             IF st.status = "FILLED"
             THEN IF passive_hedge_size # st.executedQty
                  THEN PHDie("qty")
                  ELSE /\ is_on_p_hedge' = TRUE
                       /\ passive_hedge_long_orderId' = None
                       /\ ph_filled_price' = st.avgPrice
                       /\ ph_pc' = "sp_long"
                       /\ UNCHANGED <<passive_hedge_short_orderId, passive_hedge_sp_orderId>>
                       /\ PHKeep(FALSE, TRUE, TRUE)
             ELSE /\ ph_pc' = IF passive_hedge_short_orderId # None THEN "q_short"
                              ELSE "decide"
                  /\ UNCHANGED <<is_on_p_hedge, ph_filled_price>>
                  /\ PHKeep(TRUE, TRUE, TRUE)

\* the stop-loss of a filled long trigger: SELL at filled * (1 - sp_ratio); continue
PHStopLong ==
    /\ ph_pc = "sp_long"
    /\ \/ /\ pbook' = Append(pbook, NewTrigger("sp", "SELL", passive_hedge_size,
                         Mul(ph_filled_price, FP - hcfg.passive_hedge_sp_ratio)))
          /\ passive_hedge_sp_orderId' = Len(pbook')
       \/ /\ pbook' = pbook
          /\ passive_hedge_sp_orderId' = ErrText
    /\ ph_pc' = "head"
    /\ UNCHANGED <<passive_hedge_long_orderId, passive_hedge_short_orderId,
                   is_on_p_hedge, ph_filled_price>>
    /\ PHKeep(FALSE, TRUE, FALSE)

\* query_perp_order_status on the short trigger, and the FILLED branch
PHQueryShort ==
    /\ ph_pc = "q_short"
    /\ \/ /\ passive_hedge_short_orderId = ErrText  \* int() raises ValueError
          /\ PHDie("int")
       \/ /\ passive_hedge_short_orderId # ErrText  \* the query raised: None['status'] is a TypeError
          /\ PHDie("query")
       \/ /\ passive_hedge_short_orderId # ErrText
          /\ LET st == pbook[passive_hedge_short_orderId] IN
             IF st.status = "FILLED"
             THEN IF passive_hedge_size # st.executedQty
                  THEN PHDie("qty")
                  ELSE /\ is_on_p_hedge' = TRUE
                       /\ passive_hedge_short_orderId' = None
                       /\ ph_filled_price' = st.avgPrice
                       /\ ph_pc' = "sp_short"
                       /\ UNCHANGED <<passive_hedge_long_orderId, passive_hedge_sp_orderId>>
                       /\ PHKeep(FALSE, TRUE, TRUE)
             ELSE /\ ph_pc' = "decide"
                  /\ UNCHANGED <<is_on_p_hedge, ph_filled_price>>
                  /\ PHKeep(TRUE, TRUE, TRUE)

\* a variant of the short side's stop-loss step that also drops the long oid
PHStopShort_drop_long ==
    /\ ph_pc = "sp_short"
    /\ \/ /\ pbook' = Append(pbook, NewTrigger("sp", "BUY", passive_hedge_size,
                         Mul(ph_filled_price, FP + hcfg.passive_hedge_sp_ratio)))
          /\ passive_hedge_sp_orderId' = Len(pbook')
       \/ /\ pbook' = pbook
          /\ passive_hedge_sp_orderId' = ErrText
    /\ ph_pc' = "head"
    /\ passive_hedge_long_orderId' = None
    /\ UNCHANGED <<passive_hedge_short_orderId, is_on_p_hedge, ph_filled_price>>
    /\ PHKeep(FALSE, TRUE, FALSE)

\* the stop-loss of a filled short trigger: BUY at filled * (1 + sp_ratio); continue
PHStopShort ==
    /\ ph_pc = "sp_short"
    /\ \/ /\ pbook' = Append(pbook, NewTrigger("sp", "BUY", passive_hedge_size,
                         Mul(ph_filled_price, FP + hcfg.passive_hedge_sp_ratio)))
          /\ passive_hedge_sp_orderId' = Len(pbook')
       \/ /\ pbook' = pbook
          /\ passive_hedge_sp_orderId' = ErrText
    /\ ph_pc' = "head"
    /\ UNCHANGED <<passive_hedge_long_orderId, passive_hedge_short_orderId,
                   is_on_p_hedge, ph_filled_price>>
    /\ PHKeep(FALSE, TRUE, FALSE)

\* a variant of the decision whose refresh keeps the size of the last refresh
PHDecide_keep_size ==
    /\ ph_pc = "decide"
    /\ IF /\ -hcfg.passive_hedge_refresh_iqv_ratio <= h_iqv_move_ratio
          /\ h_iqv_move_ratio <= hcfg.passive_hedge_refresh_iqv_ratio
       THEN /\ p_hedge_long_trigger_price' = Mul(h_price, FP + hcfg.passive_hedge_ratio)
            /\ p_hedge_short_trigger_price' = Mul(h_price, FP - hcfg.passive_hedge_ratio)
            /\ passive_hedge_size' =
                  IF passive_hedge_size = 0
                  THEN Mul(h_cur_inventory_amount, hcfg.passive_hedge_proportion)
                  ELSE passive_hedge_size
            /\ ph_pc' = "c_long"
       ELSE /\ ph_pc' = IF hcfg.dual_sided_hedge /\ passive_hedge_long_orderId = None
                        THEN "rearm_long"
                        ELSE IF passive_hedge_short_orderId = None THEN "rearm_short"
                        ELSE "sleep"
            /\ UNCHANGED <<passive_hedge_size, p_hedge_long_trigger_price,
                           p_hedge_short_trigger_price>>
    /\ UNCHANGED <<is_on_p_hedge, ph_filled_price>>
    /\ PHKeep(TRUE, FALSE, TRUE)

\* the if / elif / elif after the status checks
PHDecide ==
    /\ ph_pc = "decide"
    /\ IF /\ -hcfg.passive_hedge_refresh_iqv_ratio <= h_iqv_move_ratio
          /\ h_iqv_move_ratio <= hcfg.passive_hedge_refresh_iqv_ratio
       THEN /\ p_hedge_long_trigger_price' = Mul(h_price, FP + hcfg.passive_hedge_ratio)
            /\ p_hedge_short_trigger_price' = Mul(h_price, FP - hcfg.passive_hedge_ratio)
            /\ passive_hedge_size' = Mul(h_cur_inventory_amount, hcfg.passive_hedge_proportion)
            /\ ph_pc' = "c_long"
       ELSE /\ ph_pc' = IF hcfg.dual_sided_hedge /\ passive_hedge_long_orderId = None
                        THEN "rearm_long"
                        ELSE IF passive_hedge_short_orderId = None THEN "rearm_short"
                        ELSE "sleep"
            /\ UNCHANGED <<passive_hedge_size, p_hedge_long_trigger_price,
                           p_hedge_short_trigger_price>>
    /\ UNCHANGED <<is_on_p_hedge, ph_filled_price>>
    /\ PHKeep(TRUE, FALSE, TRUE)

\* cancel_perp_order answers True exactly when the venue cancelled a resting order
CanCancel(id) == id # ErrText /\ pbook[id].status = "NEW"

PHCancelLong_noassert ==
    /\ ph_pc = "c_long"
    /\ \/ /\ passive_hedge_long_orderId # None
          /\ CanCancel(passive_hedge_long_orderId)
          /\ pbook' = [pbook EXCEPT ![passive_hedge_long_orderId].status = "CANCELED"]
       \/ pbook' = pbook
    /\ ph_pc' = "c_short"
    /\ UNCHANGED <<is_on_p_hedge, ph_filled_price>>
    /\ PHKeep(TRUE, TRUE, FALSE)

\* refresh: assert cancel_perp_order(long trigger)
PHCancelLong ==
    /\ ph_pc = "c_long"
    /\ IF passive_hedge_long_orderId = None
       THEN /\ ph_pc' = "c_short"
            /\ UNCHANGED <<is_on_p_hedge, ph_filled_price>>
            /\ PHKeep(TRUE, TRUE, TRUE)
       ELSE \/ /\ CanCancel(passive_hedge_long_orderId)
               /\ pbook' = [pbook EXCEPT ![passive_hedge_long_orderId].status = "CANCELED"]
               /\ ph_pc' = "c_short"
               /\ UNCHANGED <<is_on_p_hedge, ph_filled_price>>
               /\ PHKeep(TRUE, TRUE, FALSE)
            \/ PHDie("cancel")

\* refresh: assert cancel_perp_order(short trigger)
PHCancelShort ==
    /\ ph_pc = "c_short"
    /\ IF passive_hedge_short_orderId = None
       THEN /\ ph_pc' = IF hcfg.dual_sided_hedge THEN "p_long" ELSE "p_short"
            /\ UNCHANGED <<is_on_p_hedge, ph_filled_price>>
            /\ PHKeep(TRUE, TRUE, TRUE)
       ELSE \/ /\ CanCancel(passive_hedge_short_orderId)
               /\ pbook' = [pbook EXCEPT ![passive_hedge_short_orderId].status = "CANCELED"]
               /\ ph_pc' = IF hcfg.dual_sided_hedge THEN "p_long" ELSE "p_short"
               /\ UNCHANGED <<is_on_p_hedge, ph_filled_price>>
               /\ PHKeep(TRUE, TRUE, FALSE)
            \/ PHDie("cancel")

\* placing the long entry trigger (BUY at p_hedge_long_trigger_price), in the
\* refresh (then the short one follows) or in the re-arm branch
PHPlaceLong ==
    /\ ph_pc \in {"p_long", "rearm_long"}
    /\ \/ /\ pbook' = Append(pbook, NewTrigger("long", "BUY", passive_hedge_size,
                                               p_hedge_long_trigger_price))
          /\ passive_hedge_long_orderId' = Len(pbook')
       \/ /\ pbook' = pbook
          /\ passive_hedge_long_orderId' = ErrText
    /\ ph_pc' = IF ph_pc = "p_long" THEN "p_short" ELSE "sleep"
    /\ UNCHANGED <<passive_hedge_short_orderId, passive_hedge_sp_orderId,
                   is_on_p_hedge, ph_filled_price>>
    /\ PHKeep(FALSE, TRUE, FALSE)

\* placing the short entry trigger (SELL at p_hedge_short_trigger_price)
PHPlaceShort ==
    /\ ph_pc \in {"p_short", "rearm_short"}
    /\ \/ /\ pbook' = Append(pbook, NewTrigger("short", "SELL", passive_hedge_size,
                                               p_hedge_short_trigger_price))
          /\ passive_hedge_short_orderId' = Len(pbook')
       \/ /\ pbook' = pbook
          /\ passive_hedge_short_orderId' = ErrText
    /\ ph_pc' = "sleep"
    /\ UNCHANGED <<passive_hedge_long_orderId, passive_hedge_sp_orderId,
                   is_on_p_hedge, ph_filled_price>>
    /\ PHKeep(FALSE, TRUE, FALSE)

PHQueryStop_keep_id ==
    /\ ph_pc = "q_sp"
    /\ passive_hedge_sp_orderId # ErrText
    /\ IF pbook[passive_hedge_sp_orderId].status = "FILLED"
       THEN is_on_p_hedge' = FALSE
       ELSE UNCHANGED is_on_p_hedge
    /\ ph_pc' = "sleep"
    /\ UNCHANGED ph_filled_price
    /\ PHKeep(TRUE, TRUE, TRUE)

\* a variant of the stop-loss branch that goes on to the refresh decision in
\* the tick of the exit
PHQueryStop_same_tick ==
    /\ ph_pc = "q_sp"
    /\ \/ /\ passive_hedge_sp_orderId = ErrText  \* int() raises ValueError
          /\ PHDie("int")
       \/ /\ passive_hedge_sp_orderId # ErrText  \* the query raised: None['status'] is a TypeError
          /\ PHDie("query")
       \/ /\ passive_hedge_sp_orderId # ErrText
          /\ LET st == pbook[passive_hedge_sp_orderId] IN
             IF st.status = "FILLED"
             THEN IF passive_hedge_size # st.executedQty
                  THEN PHDie("qty")
                  ELSE /\ is_on_p_hedge' = FALSE
                       /\ passive_hedge_sp_orderId' = None
                       /\ ph_filled_price' = st.avgPrice
                       /\ ph_pc' = "decide"
                       /\ UNCHANGED <<passive_hedge_long_orderId, passive_hedge_short_orderId>>
                       /\ PHKeep(FALSE, TRUE, TRUE)
             ELSE /\ ph_pc' = "sleep"
                  /\ UNCHANGED <<is_on_p_hedge, ph_filled_price>>
                  /\ PHKeep(TRUE, TRUE, TRUE)

\* the else branch: query_perp_order_status on the stop-loss order
PHQueryStop ==
    /\ ph_pc = "q_sp"
    /\ \/ /\ passive_hedge_sp_orderId = ErrText  \* int() raises ValueError
          /\ PHDie("int")
       \/ /\ passive_hedge_sp_orderId # ErrText  \* the query raised: None['status'] is a TypeError
          /\ PHDie("query")
       \/ /\ passive_hedge_sp_orderId # ErrText
          /\ LET st == pbook[passive_hedge_sp_orderId] IN
             IF st.status = "FILLED"
             THEN IF passive_hedge_size # st.executedQty
                  THEN PHDie("qty")
                  ELSE /\ is_on_p_hedge' = FALSE
                       /\ passive_hedge_sp_orderId' = None
                       /\ ph_filled_price' = st.avgPrice
                       /\ ph_pc' = "sleep"
                       /\ UNCHANGED <<passive_hedge_long_orderId, passive_hedge_short_orderId>>
                       /\ PHKeep(FALSE, TRUE, TRUE)
             ELSE /\ ph_pc' = "sleep"
                  /\ UNCHANGED <<is_on_p_hedge, ph_filled_price>>
                  /\ PHKeep(TRUE, TRUE, TRUE)

\* asyncio.sleep(passive_hedge_refresh_interval) is over
PHWake ==
    /\ ph_pc = "sleep"
    /\ ph_ticks < MaxTicks
    /\ ph_pc' = "head"
    /\ ph_ticks' = ph_ticks + 1
    /\ UNCHANGED <<hcfg, is_on_p_hedge, passive_hedge_size, p_hedge_long_trigger_price,
                   p_hedge_short_trigger_price, passive_hedge_long_orderId,
                   passive_hedge_short_orderId, passive_hedge_sp_orderId,
                   ph_filled_price, ph_fault, pbook>>
    /\ UNCHANGED <<stratVars, mmVars, snapVars, envVars>>

\* the hedge venue triggers and fills a resting STOP_MARKET order
PerpFill ==
    /\ \E o \in DOMAIN pbook :
          /\ pbook[o].status = "NEW"
          /\ pbook' = [pbook EXCEPT ![o].status = "FILLED",
                                    ![o].executedQty = pbook[o].qty,
                                    ![o].avgPrice = pbook[o].trigger]
    /\ UNCHANGED <<hcfg, ph_pc, ph_ticks, is_on_p_hedge, passive_hedge_size,
                   p_hedge_long_trigger_price, p_hedge_short_trigger_price,
                   passive_hedge_long_orderId, passive_hedge_short_orderId,
                   passive_hedge_sp_orderId, ph_filled_price, ph_fault>>
    /\ UNCHANGED <<stratVars, mmVars, snapVars, envVars>>

\* the mm task pushes a portfolio snapshot while the passive task sleeps
SnapPrices == {100 * FP}

SnapInventories == {10 * FP, Dec(101, 10)}

SnapMoves == {0, Dec(5, 10)}

PHPush ==
    /\ ph_pc \in {"sleep", "dead"}
    /\ \E p \in SnapPrices, i \in SnapInventories, m \in SnapMoves :
          update_portfolio_status(p, i, 10 * p, m)
    /\ UNCHANGED <<stratVars, mmVars, phVars, envVars>>

\* is_hedge_live is cleared from outside the hedger's loops (no line of the
\* program writes it after the constructor), while the passive task is suspended
HedgeStop ==
    /\ is_hedge_live
    /\ ph_pc \in {"head", "sleep", "dead", "done"}
    /\ is_hedge_live' = FALSE
    /\ UNCHANGED <<is_closed, feed_is_closed>>
    /\ UNCHANGED <<stratVars, mmVars, snapVars, phVars, feedVars, taskVars>>

(***************************************************************************)
(* exchange/bn.py: put_perp_gtx_order, one venue call per step, and the    *)
(* hedge venue's position and orders behind it.                            *)
(***************************************************************************)
\* range(5): the tries of each position fetch
FetchTries == 5

\* max_try=30, the default active_hedge_monitor calls with
gtx_max_try == 30

\* 0.000000001
gtx_eps == Dec(1, 1000000000)

\* the head of put_perp_gtx_order: quantity rounded, nothing filled, no try yet
GTXCall(side, quantity, max_try) ==
    [pc |-> "init_fetch", side |-> side, quantity |-> round_qty(quantity),
     unfilled_amount |-> round_qty(quantity), try_times |-> 0, init_balance |-> 0,
     fetches |-> 0, max_try |-> max_try, order |-> 0, ret |-> "none"]

GTXKeep ==
    /\ UNCHANGED <<h_init_iqv_ratio, ah_pc, ah_ticks, active_hedge_size, ah_execute_size,
                   ah_fault>>
    /\ UNCHANGED <<stratVars, mmVars, snapVars, phVars, ctlVars, feedVars, volVars, mainVars>>

\* a position fetch failed: retry after a second, or return the unfilled
\* amount as it stands after the fifth failure
FetchFailed ==
    IF gtx.fetches + 1 >= FetchTries
    THEN [gtx EXCEPT !.pc = "returned", !.ret = "unfilled", !.fetches = 0]
    ELSE [gtx EXCEPT !.fetches = @ + 1]

\* the fetch of the initial position
GTXInitFetch ==
    /\ gtx.pc = "init_fetch"
    /\ \/ gtx' = [gtx EXCEPT !.init_balance = perp_position, !.pc = "place", !.fetches = 0]
       \/ gtx' = FetchFailed
    /\ UNCHANGED <<perp_position, aorders>>
    /\ GTXKeep

\* the head of an iteration: the depth request (outside the try: its exception
\* leaves the function) and the post-only order for the unfilled amount, which
\* the venue accepts only with a positive quantity
GTXPlace ==
    /\ gtx.pc = "place"
    /\ \/ /\ gtx' = [gtx EXCEPT !.try_times = @ + 1, !.pc = "raised"]
          /\ UNCHANGED aorders
       \/ /\ gtx' = [gtx EXCEPT !.try_times = @ + 1, !.pc = "requery"]
          /\ UNCHANGED aorders
       \/ /\ gtx.unfilled_amount > 0
          /\ aorders' = Append(aorders, [type |-> "GTX", side |-> gtx.side,
                                         quantity |-> gtx.unfilled_amount, filled |-> 0,
                                         status |-> "NEW"])
          /\ gtx' = [gtx EXCEPT !.try_times = @ + 1, !.pc = "wait", !.order = Len(aorders')]
    /\ UNCHANGED perp_position
    /\ GTXKeep

\* asyncio.sleep(3) is over: cancel_order, which raises for an order that has
\* filled, and may raise for one that rests
GTXCancel ==
    /\ gtx.pc = "wait"
    /\ \/ /\ aorders[gtx.order].status = "NEW"
          /\ aorders' = [aorders EXCEPT ![gtx.order].status = "CANCELED"]
       \/ aorders' = aorders
    /\ gtx' = [gtx EXCEPT !.pc = "requery"]
    /\ UNCHANGED perp_position
    /\ GTXKeep

GTXRequery_ignore_fill ==
    /\ gtx.pc = "requery"
    /\ \/ gtx' = IF gtx.try_times >= gtx.max_try
                  THEN [gtx EXCEPT !.pc = "returned", !.ret = "unfilled", !.fetches = 0]
                  ELSE [gtx EXCEPT !.pc = "place", !.fetches = 0]
       \/ gtx' = FetchFailed
    /\ UNCHANGED <<perp_position, aorders>>
    /\ GTXKeep

\* the fetch of the current position and the end of the iteration: the
\* unfilled amount from the position delta, success at or below 1e-9, the
\* unfilled amount after max_try iterations
GTXRequery ==
    /\ gtx.pc = "requery"
    /\ \/ LET u == IF gtx.side = "BUY"
                    THEN gtx.quantity - (perp_position - gtx.init_balance)
                    ELSE gtx.quantity - (gtx.init_balance - perp_position)
          IN  gtx' = IF u <= gtx_eps
                     THEN [gtx EXCEPT !.unfilled_amount = u, !.pc = "returned",
                                      !.ret = "success", !.fetches = 0]
                     ELSE IF gtx.try_times >= gtx.max_try
                     THEN [gtx EXCEPT !.unfilled_amount = u, !.pc = "returned",
                                      !.ret = "unfilled", !.fetches = 0]
                     ELSE [gtx EXCEPT !.unfilled_amount = u, !.pc = "place",
                                      !.fetches = 0]
       \/ gtx' = FetchFailed
    /\ UNCHANGED <<perp_position, aorders>>
    /\ GTXKeep

\* the position after a fill of a units on side
Moved(side, a) == IF side = "BUY" THEN perp_position + a ELSE perp_position - a

\* the hedge venue fills a resting post-only order, wholly or by one step
HedgeFill ==
    /\ \E o \in DOMAIN aorders :
          /\ aorders[o].status = "NEW"
          /\ \E a \in {qty_step, aorders[o].quantity - aorders[o].filled} :
                /\ a <= aorders[o].quantity - aorders[o].filled
                /\ aorders' = [aorders EXCEPT
                       ![o].filled = @ + a,
                       ![o].status = IF aorders[o].filled + a = aorders[o].quantity
                                     THEN "FILLED" ELSE "NEW"]
                /\ perp_position' = Moved(aorders[o].side, a)
    /\ UNCHANGED gtx
    /\ GTXKeep

(***************************************************************************)
(* hedge/hedge.py: active_hedge_monitor                                    *)
(***************************************************************************)
MaxAHTicks == 2

\* N = init_iqv_ratio * active_hedge_iqv_ratio
hedge_N == Mul(h_init_iqv_ratio, hcfg.active_hedge_iqv_ratio)

\* x = (i * p - N * i * q - N * q) / p
short_hedge_x ==
    Div(Mul(h_cur_inventory_amount, h_price)
        - Mul(Mul(hedge_N, h_cur_inventory_amount), h_cur_quote_amount)
        - Mul(hedge_N, h_cur_quote_amount), h_price)

\* x = (N * i * q + N * q - i * p) / p
long_hedge_x ==
    Div(Mul(Mul(hedge_N, h_cur_inventory_amount), h_cur_quote_amount)
        + Mul(hedge_N, h_cur_quote_amount)
        - Mul(h_cur_inventory_amount, h_price), h_price)

AHKeep ==
    /\ UNCHANGED h_init_iqv_ratio
    /\ UNCHANGED <<stratVars, mmVars, snapVars, phVars, ctlVars, feedVars, volVars, mainVars>>

\* the task ends in the except clause that encloses its loop
AHDie(why) ==
    /\ ah_pc' = "dead"
    /\ ah_fault' = why
    /\ gtx' = GTXIdle
    /\ UNCHANGED <<ah_ticks, active_hedge_size, ah_execute_size, perp_position, aorders>>

\* _execute_size is settled: the GTX call when it is large enough, else the
\* store of active_hedge_size and the sleep
AHExecute(size) ==
    /\ ah_execute_size' = size
    /\ ah_fault' = ah_fault
    /\ IF Abs(size) > hcfg.min_hedge_order_size
       THEN /\ gtx' = GTXCall(IF size > 0 THEN "BUY" ELSE "SELL", size, gtx_max_try)
            /\ ah_pc' = "gtx"
            /\ UNCHANGED active_hedge_size
       ELSE /\ active_hedge_size' = size
            /\ ah_pc' = "sleep"
            /\ UNCHANGED gtx
    /\ UNCHANGED <<ah_ticks, perp_position, aorders>>

\* the head of an iteration: the flag, the branch on iqv_move_ratio and the
\* solve.  The long branch's condition reads self.hedge_side, a field Hedge
\* never sets (AttributeError).
AHTick ==
    /\ ah_pc = "head"
    /\ IF ~is_hedge_live
       THEN /\ ah_pc' = "done"
            /\ UNCHANGED <<ah_ticks, active_hedge_size, ah_execute_size, ah_fault, gtx,
                           perp_position, aorders>>
       ELSE IF h_iqv_move_ratio > hcfg.active_hedge_iqv_ratio
       THEN IF short_hedge_x > 0
            THEN AHExecute(-short_hedge_x - active_hedge_size)
            ELSE AHDie("assert")
       ELSE IF h_iqv_move_ratio < -hcfg.active_hedge_iqv_ratio
       THEN AHDie("hedge_side")
       ELSE AHExecute(0)
    /\ AHKeep

\* put_perp_gtx_order is back: a depth exception passes through; a success
\* returns the tuple (True, 0), and (True, 0) > 0 raises TypeError; an
\* unfilled amount above 0 is followed by put_perp_market_order for
\* _execute_size, which the venue fills or rejects; then the store and the sleep
AHResume ==
    /\ ah_pc = "gtx"
    /\ gtx.pc \in {"returned", "raised"}
    /\ IF gtx.pc = "raised" THEN AHDie("depth")
       ELSE IF gtx.ret = "success" THEN AHDie("tuple")
       ELSE /\ IF gtx.unfilled_amount > 0
               THEN LET side == IF ah_execute_size > 0 THEN "BUY" ELSE "SELL"
                        q == round_qty(ah_execute_size)
                    IN  \/ /\ q > 0
                           /\ aorders' = Append(aorders,
                                  [type |-> "MARKET", side |-> side, quantity |-> q,
                                   filled |-> q, status |-> "FILLED"])
                           /\ perp_position' = Moved(side, q)
                        \/ UNCHANGED <<aorders, perp_position>>
               ELSE UNCHANGED <<aorders, perp_position>>
            /\ active_hedge_size' = ah_execute_size
            /\ ah_pc' = "sleep"
            /\ gtx' = GTXIdle
            /\ UNCHANGED <<ah_ticks, ah_execute_size, ah_fault>>
    /\ AHKeep

\* a variant of the wake that clears the passive flag
AHWake_clears_flag ==
    /\ ah_pc = "sleep"
    /\ ah_ticks < MaxAHTicks
    /\ ah_pc' = "head"
    /\ ah_ticks' = ah_ticks + 1
    /\ is_on_p_hedge' = FALSE
    /\ UNCHANGED <<active_hedge_size, ah_execute_size, ah_fault, gtx, perp_position,
                   aorders, h_init_iqv_ratio>>
    /\ UNCHANGED <<hcfg, ph_pc, ph_ticks, passive_hedge_size,
                   p_hedge_long_trigger_price, p_hedge_short_trigger_price,
                   passive_hedge_long_orderId, passive_hedge_short_orderId,
                   passive_hedge_sp_orderId, ph_filled_price, ph_fault, pbook>>
    /\ UNCHANGED <<stratVars, mmVars, snapVars, ctlVars, feedVars, volVars, mainVars>>

\* asyncio.sleep(1) is over
AHWake ==
    /\ ah_pc = "sleep"
    /\ ah_ticks < MaxAHTicks
    /\ ah_pc' = "head"
    /\ ah_ticks' = ah_ticks + 1
    /\ UNCHANGED <<active_hedge_size, ah_execute_size, ah_fault, gtx, perp_position,
                   aorders>>
    /\ AHKeep

\* the hedger of configs/test_bn_sui_auto.py with round numbers, either sidedness
HedgeConfigs ==
    {[passive_hedge_ratio |-> Dec(2, 100), passive_hedge_sp_ratio |-> Dec(3, 1000),
      passive_hedge_proportion |-> Dec(5, 10),
      passive_hedge_refresh_iqv_ratio |-> Dec(2, 10), dual_sided_hedge |-> d,
      active_hedge_iqv_ratio |-> Dec(65, 100), min_hedge_order_size |-> Dec(1, 10)] :
        d \in BOOLEAN}

InitPH ==
    /\ StrategyInit(BaseConfig)
    /\ MMInit("binance_spot")
    /\ SnapInit(100 * FP, 10 * FP, 1000 * FP)
    /\ \E h \in HedgeConfigs : PassiveInit(h)
    /\ CtlInit
    /\ FeedAt(100 * FP)
    /\ TasksInit

NextPH ==
    \/ PHHead \/ PHQueryLong \/ PHStopLong \/ PHQueryShort \/ PHStopShort
    \/ PHDecide \/ PHCancelLong \/ PHCancelShort \/ PHPlaceLong \/ PHPlaceShort
    \/ PHQueryStop \/ PHWake \/ PerpFill \/ PHPush \/ HedgeStop

SpecPH == InitPH /\ [][NextPH]_vars

(***************************************************************************)
(* The passive hedger started with a long trigger oid it did not place: a  *)
(* one-sided hedger whose passive_hedge_long_orderId names a BUY trigger   *)
(* that rests on the venue (the field is public and the constructor is     *)
(* the only place that clears it), next to the hedgers of SpecPH.          *)
(***************************************************************************)
\* the long trigger left on the venue: the one a refresh at the init price
\* and inventory would have placed
StrayLong ==
    NewTrigger("long", "BUY", Mul(h_cur_inventory_amount, hcfg.passive_hedge_proportion),
               Mul(h_price, FP + hcfg.passive_hedge_ratio))

InitRecover ==
    /\ StrategyInit(BaseConfig)
    /\ MMInit("binance_spot")
    /\ SnapInit(100 * FP, 10 * FP, 1000 * FP)
    /\ CtlInit
    /\ FeedAt(100 * FP)
    /\ TasksInit
    /\ \/ \E h \in HedgeConfigs : PassiveInit(h)
       \/ /\ \E h \in HedgeConfigs : ~h.dual_sided_hedge /\ hcfg = h
          /\ ph_pc = "head" /\ ph_ticks = 0 /\ ph_fault = "none"
          /\ is_on_p_hedge = FALSE /\ ph_filled_price = 0
          /\ passive_hedge_size = StrayLong.qty
          /\ p_hedge_long_trigger_price = StrayLong.trigger
          /\ p_hedge_short_trigger_price = Mul(h_price, FP - hcfg.passive_hedge_ratio)
          /\ passive_hedge_long_orderId = 1
          /\ passive_hedge_short_orderId = None
          /\ passive_hedge_sp_orderId = None
          /\ pbook = <<StrayLong>>

SpecRecover == InitRecover /\ [][NextPH]_vars

(***************************************************************************)
(* The passive hedger whose first tick comes after mm's first push: main   *)
(* creates the mm task before the passive task, and the first round of mm  *)
(* reaches step 5 without suspending, so the passive task's first tick     *)
(* reads the portfolio of that push, not the constructor's.                *)
(***************************************************************************)
InitPushed ==
    /\ StrategyInit(BaseConfig)
    /\ MMInit("binance_spot")
    /\ \E p \in SnapPrices, i \in SnapInventories, m \in SnapMoves :
          /\ h_price = p
          /\ h_cur_inventory_amount = i
          /\ h_cur_quote_amount = 10 * p
          /\ h_iqv_move_ratio = m
    /\ \E h \in HedgeConfigs : PassiveInit(h)
    /\ CtlInit
    /\ FeedAt(100 * FP)
    /\ TasksInit

SpecPushed == InitPushed /\ [][NextPH]_vars

(***************************************************************************)
(* The mm task on its own, against either spot venue                       *)
(***************************************************************************)
\* the strategy initialize_clients builds: mode auto, two orders a round
MMConfig == [BaseConfig EXCEPT !.live_order_nums = 2]

InitMM ==
    /\ StrategyInit(MMConfig)
    /\ \E m \in Marketplaces : MMInit(m)
    /\ SnapInit(MMConfig.init_price, MMConfig.init_inventory_amount,
                MMConfig.init_quote_amount)
    /\ \E h \in HedgeConfigs : h.dual_sided_hedge /\ PassiveInit(h)
    /\ CtlInit
    /\ \E a \in FeedAggrs, m \in FeedMids : FeedShowing(a, <<m - 1, m + 1>>)
    /\ TasksInit

NextMM == MMCancel \/ MMQuery \/ MMPlan \/ MMPlace \/ MMWake \/ VenueFill

SpecMM == InitMM /\ [][NextMM]_vars

(***************************************************************************)
(* The mm task while the depth stream goes on delivering: the feed stores  *)
(* the best bid and ask of every message as they come, a message whose     *)
(* levels are priced 0 included.                                           *)
(***************************************************************************)
\* what the depth stream delivers while mm runs
MMDepths == {<<FP - 1, FP + 1>>, <<0, 0>>}

MMDepthRecv == MonitorRecv("depth", MMDepths)

NextMMFeed == NextMM \/ MMDepthRecv

SpecMMFeed == InitMM /\ [][NextMMFeed]_vars

(***************************************************************************)
(* The active hedger against the hedge venue, and put_perp_gtx_order       *)
(* called on its own for either side.                                      *)
(***************************************************************************)
MaxTry == 2

GTXQuantities == {Dec(2, 10)}

\* the portfolios mm pushes: price, inventory, quote
AHSnaps ==
    {<<FP, 10 * FP, 10 * FP>>, <<FP, 19 * FP, FP>>,
     <<FP, 100 * FP, 20 * FP>>, <<FP, 2 * FP, 18 * FP>>}

\* mm's step 5 between two ticks of the hedger
AHPush ==
    /\ ah_pc \in {"head", "sleep", "gtx"}
    /\ \E x \in AHSnaps :
          update_portfolio_status(x[1], x[2], x[3],
              compute_iqv_move_ratio(cfg, compute_iqv_ratio(x[1], x[2], x[3])))
    /\ UNCHANGED <<stratVars, mmVars, phVars, envVars>>

InitAH ==
    /\ StrategyInit(BaseConfig)
    /\ MMInit("binance_spot")
    /\ SnapInit(FP, 10 * FP, 10 * FP)
    /\ \E h \in HedgeConfigs : PassiveInit(h)
    /\ CtlInit
    /\ FeedAt(FP)
    /\ VolInit
    /\ MainInit("gather", "running")
    /\ \/ ActiveInit("head", GTXIdle)
       \/ \E side \in {"BUY", "SELL"}, q \in GTXQuantities, m \in 1..MaxTry :
             ActiveInit("new", GTXCall(side, q, m))

NextAH ==
    \/ AHTick \/ AHResume \/ AHWake \/ AHPush \/ HedgeStop
    \/ GTXInitFetch \/ GTXPlace \/ GTXCancel \/ GTXRequery \/ HedgeFill

SpecAH == InitAH /\ [][NextAH]_vars

\* the event loop resumes a call whose sleep is over, and a venue request ends
SpecAHFair ==
    /\ SpecAH
    /\ WF_vars(GTXInitFetch) /\ WF_vars(GTXPlace) /\ WF_vars(GTXCancel)
    /\ WF_vars(GTXRequery)

(***************************************************************************)
(* The active hedger on a portfolio that does not change: mm's first round *)
(* has pushed (1, 19, 1), above the activation threshold, before the first *)
(* tick, and pushes nothing afterwards.                                    *)
(***************************************************************************)
InitSteady ==
    /\ StrategyInit(BaseConfig)
    /\ MMInit("binance_spot")
    /\ h_price = FP
    /\ h_cur_inventory_amount = 19 * FP
    /\ h_cur_quote_amount = FP
    /\ h_iqv_move_ratio = compute_iqv_move_ratio(BaseConfig, compute_iqv_ratio(FP, 19 * FP, FP))
    /\ \E h \in HedgeConfigs : PassiveInit(h)
    /\ CtlInit
    /\ FeedAt(FP)
    /\ VolInit
    /\ MainInit("gather", "running")
    /\ h_init_iqv_ratio = init_iqv_ratio(BaseConfig)
    /\ active_hedge_size = 0
    /\ ah_execute_size = 0
    /\ ah_ticks = 0
    /\ ah_fault = "none"
    /\ perp_position = 0
    /\ aorders = <<>>
    /\ \/ ah_pc = "head" /\ gtx = GTXIdle
       \/ \E side \in {"BUY", "SELL"}, q \in GTXQuantities, m \in 1..MaxTry :
             ah_pc = "new" /\ gtx = GTXCall(side, q, m)

NextSteady ==
    \/ AHTick \/ AHResume \/ AHWake \/ HedgeStop
    \/ GTXInitFetch \/ GTXPlace \/ GTXCancel \/ GTXRequery \/ HedgeFill

SpecSteady == InitSteady /\ [][NextSteady]_vars

(***************************************************************************)
(* The active hedger late in a GTX call for a positive size.  A short tick *)
(* on the portfolio (1, 19, 1) whose call came back after five failed      *)
(* position fetches has stored active_hedge_size = -12.5; the next tick,   *)
(* on (1, 37, 2), solved x = 12.3 and called put_perp_gtx_order to BUY the *)
(* 0.2 between them; the venue has refused the order of every try but the  *)
(* last MaxTry, and mm has pushed the initial portfolio again meanwhile.   *)
(***************************************************************************)
\* the hedge a short tick on (1, 19, 1) leaves behind
StandingHedge == -Dec(125, 10)

InitResidual ==
    /\ StrategyInit(BaseConfig)
    /\ MMInit("binance_spot")
    /\ SnapInit(FP, 10 * FP, 10 * FP)
    /\ \E h \in HedgeConfigs : PassiveInit(h)
    /\ CtlInit
    /\ FeedAt(FP)
    /\ VolInit
    /\ MainInit("gather", "running")
    /\ h_init_iqv_ratio = Div(Mul(h_cur_inventory_amount, h_price),
                              Mul(h_cur_inventory_amount, h_price) + h_cur_quote_amount)
    /\ ah_pc = "gtx"
    /\ ah_ticks = MaxAHTicks - 1
    /\ active_hedge_size = StandingHedge
    /\ ah_fault = "none"
    /\ \E q \in GTXQuantities :
          /\ ah_execute_size = q
          /\ gtx = [GTXCall("BUY", q, gtx_max_try) EXCEPT
                        !.pc = "place", !.try_times = gtx_max_try - MaxTry]
    /\ perp_position = 0
    /\ aorders = <<>>

SpecResidual == InitResidual /\ [][NextAH]_vars

(***************************************************************************)
(* The tasks that touch the hedger together, on one event loop: the        *)
(* passive hedger, the active hedger, and mm, which is here the snapshot   *)
(* it pushes in step 5 of a round.  The passive hedger runs a whole tick   *)
(* without the others in between (it meets no await that suspends it       *)
(* before its sleep); the hedge venue fills at any moment.                 *)
(***************************************************************************)
\* the passive task is at its sleep (or has not run, or ended)
PHSuspended == ph_pc \in {"head", "sleep", "dead", "done"}

\* sleeps the two hedge tasks have finished, and how many the joint runs follow
JointSleeps == ph_ticks + ah_ticks

MaxJointSleeps == 2

InitHedge ==
    /\ StrategyInit(MMConfig)
    /\ MMInit("hyperliquid")
    /\ SnapInit(MMConfig.init_price, MMConfig.init_inventory_amount,
                MMConfig.init_quote_amount)
    /\ \E h \in HedgeConfigs : h.dual_sided_hedge /\ PassiveInit(h)
    /\ CtlInit
    /\ FeedAt(MMConfig.init_price)
    /\ VolInit
    /\ ActiveInit("head", GTXIdle)
    /\ MainInit("gather", "running")

NextHedge ==
    \/ PHHead \/ PHQueryLong \/ PHStopLong \/ PHQueryShort \/ PHStopShort
    \/ PHDecide \/ PHCancelLong \/ PHCancelShort \/ PHPlaceLong \/ PHPlaceShort
    \/ PHQueryStop
    \/ (JointSleeps < MaxJointSleeps /\ PHWake)
    \/ /\ PHSuspended
       /\ \/ AHTick \/ AHResume \/ AHPush \/ HedgeStop
          \/ (JointSleeps < MaxJointSleeps /\ AHWake)
          \/ GTXInitFetch \/ GTXPlace \/ GTXRequery
    \/ PerpFill

SpecHedge == InitHedge /\ [][NextHedge]_vars

(***************************************************************************)
(* The feed monitors and vol_monitor, on a connector in any state of its   *)
(* two price fields.                                                       *)
(***************************************************************************)
\* what the spot stream delivers
SpotTicks == {FP - 19, FP + 20}

\* what the depth stream delivers
DepthTicks == {<<FP - 1, FP + 1>>, <<FP - 21, FP - 19>>}

CheckAggrs == {None, FP - 20, FP - 19, FP, FP + 19, FP + 20}

CheckDepths == {<<>>} \cup DepthTicks

\* feed.is_closed is set from outside, while the monitors wait
FeedClose ==
    /\ ~feed_is_closed
    /\ \A k \in Monitors : feed_pc[k] # "connect"
    /\ feed_is_closed' = TRUE
    /\ UNCHANGED <<is_closed, is_hedge_live>>
    /\ UNCHANGED <<stratVars, mmVars, snapVars, phVars, feedVars, taskVars>>

\* runner.is_closed is set from outside, while mm and vol_monitor wait
RunnerClose ==
    /\ ~is_closed
    /\ mm_pc \in {"cancel", "sleep", "done"}
    /\ is_closed' = TRUE
    /\ UNCHANGED <<feed_is_closed, is_hedge_live>>
    /\ UNCHANGED <<stratVars, mmVars, snapVars, phVars, feedVars, taskVars>>

InitVol ==
    /\ StrategyInit(MMConfig)
    /\ MMInit("hyperliquid")
    /\ SnapInit(MMConfig.init_price, MMConfig.init_inventory_amount,
                MMConfig.init_quote_amount)
    /\ \E h \in HedgeConfigs : h.dual_sided_hedge /\ PassiveInit(h)
    /\ CtlInit
    /\ \E a \in CheckAggrs, d \in CheckDepths : FeedShowing(a, d)
    /\ vm_pc = "klines"
    /\ vm_ticks = 0
    /\ vm_check = "none"
    /\ vol_his_price = <<>>
    /\ vc_series = <<>>
    /\ ActiveInit("new", GTXIdle)
    /\ MainInit("gather", "running")

NextVol ==
    \/ \E k \in Monitors : MonitorConnect(k)
    \/ MonitorRecv("spot", SpotTicks)
    \/ MonitorRecv("depth", DepthTicks)
    \/ \E k \in Monitors : MonitorRetry(k)
    \/ VMStart({FP})
    \/ VMTick
    \/ FeedClose
    \/ RunnerClose

SpecVol == InitVol /\ [][NextVol]_vars

(***************************************************************************)
(* mm_run.py: main, which starts live_price_monitor, waits for the feed,   *)
(* builds the clients and gathers the core tasks.  Of the gathered tasks   *)
(* the feed and vol_monitor are followed here.  A task runs while main     *)
(* has not ended: asyncio.run cancels what is left when main ends.         *)
(***************************************************************************)
\* what the streams deliver while main starts
BootSpots == {FP, FP + 20}

BootDepths == {<<FP - 1, FP + 1>>}

MainAlive == main_pc \notin {"raised", "returned"}

\* the connector of the marketplace has the method live_price_monitor names:
\* BnFeedsConnector has monitor_spot_top_depth and no monitor_top_depth
HasMonitor(k) == k = "spot" \/ marketplace = "hyperliquid"

\* live_price_monitor up to its gather: the monitor tasks are created in the
\* order of the list, and naming a method the connector lacks raises
\* AttributeError after the tasks before it were created
LPStart ==
    /\ lp_pc = "new"
    /\ feed_pc' = [k \in Monitors |-> IF HasMonitor(k) THEN "connect" ELSE feed_pc[k]]
    /\ lp_pc' = IF \A k \in Monitors : HasMonitor(k) THEN "running" ELSE "raised"
    /\ UNCHANGED <<main_pc, spot_price, top_depth, feed_retry>>
    /\ UNCHANGED <<stratVars, mmVars, snapVars, phVars, ctlVars, volVars, ahVars>>

\* the gather of live_price_monitor returns when both monitors returned
LPJoin ==
    /\ lp_pc = "running"
    /\ \A k \in Monitors : feed_pc[k] \in {"done", "gaveup"}
    /\ lp_pc' = "done"
    /\ UNCHANGED <<main_pc, feedVars>>
    /\ UNCHANGED <<stratVars, mmVars, snapVars, phVars, ctlVars, volVars, ahVars>>

\* main after asyncio.sleep(1), during which the new task has run: it enters
\* initialize_clients
MainEnterInit ==
    /\ main_pc = "start"
    /\ lp_pc # "new"
    /\ main_pc' = "wait_price"
    /\ UNCHANGED <<lp_pc, feedVars>>
    /\ UNCHANGED <<stratVars, mmVars, snapVars, phVars, ctlVars, volVars, ahVars>>

\* while not self.mid_price or not self.aggr_price: await asyncio.sleep(1)
MainWaitPrice ==
    /\ main_pc = "wait_price"
    /\ ~Falsy(r_mid_price) /\ ~Falsy(r_aggr_price)
    /\ main_pc' = "init"
    /\ UNCHANGED <<lp_pc, feedVars>>
    /\ UNCHANGED <<stratVars, mmVars, snapVars, phVars, ctlVars, volVars, ahVars>>

\* one iteration of the while True of initialize_clients that leaves it: a
\* constructor raises and main returns from its except clause, or the price
\* check passes, every client is built and main creates the four other tasks
\* and awaits the gather.  An iteration in which the check fails sleeps and
\* repeats (retry is counted down and never tested).
MainInitClients ==
    /\ main_pc = "init"
    /\ \/ main_pc' = "returned" /\ UNCHANGED vm_pc
       \/ /\ price_security_check
          /\ main_pc' = "gather"
          /\ vm_pc' = "klines"
    /\ UNCHANGED <<lp_pc, feedVars, vm_ticks, vm_check, vol_his_price, vc_series>>
    /\ UNCHANGED <<stratVars, mmVars, snapVars, phVars, ctlVars, ahVars>>

\* await asyncio.gather(*_tasks): the first exception of a task is raised
\* into main, which ends with it
MainReap ==
    /\ main_pc = "gather"
    /\ lp_pc = "raised" \/ vm_pc = "raised"
    /\ main_pc' = "raised"
    /\ UNCHANGED <<lp_pc, feedVars>>
    /\ UNCHANGED <<stratVars, mmVars, snapVars, phVars, ctlVars, volVars, ahVars>>

InitBoot ==
    /\ StrategyInit(MMConfig)
    /\ \E m \in Marketplaces : MMInit(m)
    /\ SnapInit(MMConfig.init_price, MMConfig.init_inventory_amount,
                MMConfig.init_quote_amount)
    /\ \E h \in HedgeConfigs : h.dual_sided_hedge /\ PassiveInit(h)
    /\ CtlInit
    /\ FeedInit
    /\ VolInit
    /\ ActiveInit("new", GTXIdle)
    /\ MainInit("start", "new")

NextBoot ==
    \/ LPStart \/ MainEnterInit \/ MainWaitPrice \/ MainInitClients \/ MainReap
    \/ /\ MainAlive
       /\ \/ \E k \in Monitors : MonitorConnect(k)
          \/ MonitorRecv("spot", BootSpots)
          \/ MonitorRecv("depth", BootDepths)
          \/ \E k \in Monitors : MonitorRetry(k)
          \/ LPJoin
          \/ VMStart({FP})
          \/ VMTick
          \/ FeedClose

SpecBoot == InitBoot /\ [][NextBoot]_vars

(***************************************************************************)
(* The planner on its own: any sequence of update_vol and                  *)
(* compute_current_bins calls on a strategy built from one configuration.  *)
(***************************************************************************)
\* the runner and the hedger, built and idle
Idle ==
    /\ MMInit("binance_spot")
    /\ SnapInit(cfg.init_price, cfg.init_inventory_amount, cfg.init_quote_amount)
    /\ \E h \in HedgeConfigs : h.dual_sided_hedge /\ PassiveInit(h)
    /\ CtlInit
    /\ FeedAt(cfg.init_price)
    /\ TasksInit

InitPlan == (\E c \in PlanConfigs : StrategyInit(c)) /\ Idle

PlanUpdateVol == (\E v \in Vols : update_vol(v)) /\ UNCHANGED <<mmVars, snapVars, phVars, envVars>>

PlanCompute ==
    /\ \E x \in PlanInputs : compute_current_bins(x[1], x[2], x[3])
    /\ UNCHANGED <<mmVars, snapVars, phVars, envVars>>

NextPlan == PlanUpdateVol \/ PlanCompute

SpecPlan == InitPlan /\ [][NextPlan]_vars

InitSkew == (\E c \in SkewConfigs : StrategyInit(c)) /\ Idle

SkewUpdateVol == (\E v \in Vols : update_vol(v)) /\ UNCHANGED <<mmVars, snapVars, phVars, envVars>>

SkewCompute ==
    /\ \E x \in SkewInputs : compute_current_bins(x[1], x[2], x[3])
    /\ UNCHANGED <<mmVars, snapVars, phVars, envVars>>

NextSkew == SkewUpdateVol \/ SkewCompute

SpecSkew == InitSkew /\ [][NextSkew]_vars

(***************************************************************************)
(* Properties of the planner                                               *)
(***************************************************************************)
BinSizes(side) == {side[k][2] : k \in 1..Len(side)}

\* the ladder of the branch r, with the given multipliers, on the current inputs
BinsOf(r, buy_scaling, sell_scaling) ==
    IF r = "curve"
    THEN curve_bins(cfg, mid_price, cur_inventory_amount, cur_quote_amount,
                    buy_scaling, sell_scaling)
    ELSE IF r = "bid_ask"
    THEN bid_ask_bins(cfg, mid_price, cur_inventory_amount, cur_quote_amount,
                      buy_scaling, sell_scaling)
    ELSE spot_bins(cfg, mid_price, cur_inventory_amount, cur_quote_amount,
                   buy_scaling, sell_scaling)

\* C6: every bin of the ladder compute_current_bins stored has a size s with
\* min_order_size <= s <= max_order_size (configurations with
\* 0 <= min_order_size <= max_order_size, all three regimes).
C6_BinSizeWithinClamp ==
    \A s \in BinSizes(bins.bids) \cup BinSizes(bins.asks) :
        cfg.min_order_size <= s /\ s <= cfg.max_order_size

\* C6 witness: a BidAsk ladder with min_order_size > 0 in which a bid was raised
\* to min_order_size (its multiplier is 0) and the asks lie strictly inside the clamp.
C6_Witness ==
    /\ regime = "bid_ask"
    /\ cfg.min_order_size > 0
    /\ compute_buy_size_multiplier(cfg, iqv_move_ratio) = 0
    /\ Len(bins.bids) > 0
    /\ \A s \in BinSizes(bins.bids) : s = cfg.min_order_size
    /\ Len(bins.asks) > 0
    /\ \A s \in BinSizes(bins.asks) : cfg.min_order_size < s /\ s < cfg.max_order_size

\* C7: the planner emits at most floor(live_order_nums / 2) bins per side and at
\* most live_order_nums bins in total, and the round's order list holds at most
\* live_order_nums orders.
C7_AtMostLiveOrderNums ==
    regime # "none" =>
        /\ Len(bins.bids) <= cfg.live_order_nums \div 2
        /\ Len(bins.asks) <= cfg.live_order_nums \div 2
        /\ Len(bins.bids) + Len(bins.asks) <= cfg.live_order_nums
        /\ Len(nr_orders(bins, cfg.live_order_nums)) <= cfg.live_order_nums

\* C8: with iqv_move_ratio >= iqv_up_limit the ladder has no bid and its ask side
\* is the ask side computed without skew; with iqv_move_ratio <= iqv_down_limit it
\* has no ask.
C8_SkewCutoff ==
    regime # "none" =>
        /\ iqv_move_ratio >= cfg.iqv_up_limit =>
              /\ bins.bids = <<>>
              /\ bins.asks = BinsOf(regime, FP, FP).asks
        /\ iqv_move_ratio <= cfg.iqv_down_limit => bins.asks = <<>>

buy_mul == compute_buy_size_multiplier(cfg, iqv_move_ratio)

sell_mul == compute_sell_size_multiplier(cfg, iqv_move_ratio)

C9_Kernel ==
    /\ 0 <= buy_mul /\ buy_mul <= FP
    /\ iqv_move_ratio >= cfg.iqv_up_limit => buy_mul = 0
    /\ (iqv_move_ratio <= cfg.inventory_rb_iqv_ratio /\ iqv_move_ratio < cfg.iqv_up_limit)
          => buy_mul = FP
    /\ (cfg.inventory_rb_iqv_ratio < iqv_move_ratio /\ iqv_move_ratio < cfg.iqv_up_limit)
          => buy_mul = FP - Div(iqv_move_ratio - cfg.inventory_rb_iqv_ratio,
                                cfg.iqv_up_limit - cfg.inventory_rb_iqv_ratio)
    /\ 0 <= sell_mul /\ sell_mul <= FP
    /\ iqv_move_ratio <= cfg.iqv_down_limit => sell_mul = 0
    /\ (iqv_move_ratio >= cfg.quote_rb_iqv_ratio /\ iqv_move_ratio > cfg.iqv_down_limit)
          => sell_mul = FP
    /\ (cfg.iqv_down_limit < iqv_move_ratio /\ iqv_move_ratio < cfg.quote_rb_iqv_ratio)
          => sell_mul = FP - Div(cfg.quote_rb_iqv_ratio - iqv_move_ratio,
                                 cfg.quote_rb_iqv_ratio - cfg.iqv_down_limit)

C9_Monotone ==
    /\ iqv_move_ratio' >= iqv_move_ratio => buy_mul' <= buy_mul
    /\ iqv_move_ratio' >= iqv_move_ratio => sell_mul' >= sell_mul

C10_Step ==
    (vol_arg' = vol_arg /\ vol' = vol) =>
        /\ vol = (IF vol_arg = NoArg THEN cfg.init_vol ELSE vol_arg)
        /\ regime' = "curve" <=> vol < cfg.vol_lower_threshold
        /\ regime' = "bid_ask" <=> vol > cfg.vol_upper_threshold
        /\ regime' = "spot" <=>
              (vol >= cfg.vol_lower_threshold /\ vol <= cfg.vol_upper_threshold)

\* C10: every compute_current_bins call takes the Curve branch iff vol < lower, the
\* BidAsk branch iff vol > upper and the Spot branch otherwise, where vol is the
\* argument of the last update_vol call (init_vol if there was none); the stored
\* ladder is the one of the branch taken.
C10_RegimeSelection ==
    /\ [](regime # "none" => bins = BinsOf(regime, buy_mul, sell_mul))
    /\ [][C10_Step]_vars

\* C10 witness: after update_vol with a value equal to the lower threshold the
\* ladder was computed by the Spot branch.
C10_Witness ==
    /\ regime = "spot"
    /\ vol_arg = cfg.vol_lower_threshold
    /\ vol = vol_arg
    /\ cfg.vol_lower_threshold < cfg.vol_upper_threshold
    /\ bins = BinsOf("spot", buy_mul, sell_mul)
    /\ bins # BinsOf("curve", buy_mul, sell_mul)

(***************************************************************************)
(* Properties of the mm task                                               *)
(***************************************************************************)
\* C2: at most one ladder is live on the venue: any two orders resting on the
\* venue were placed by the same round, on either venue, whatever the cancel
\* call answered.
C2_OneLadderLive ==
    \A i, j \in DOMAIN book :
        (Resting(i) /\ Resting(j)) => book[i].round = book[j].round

\* C3: a round runs cancel, then the fill query exactly when the stored oids are
\* not empty, then the plan, then the placement; the venue and the planner are
\* touched only by the step whose turn it is.
C3_Step ==
    /\ (mm_pc = "cancel" /\ mm_pc' # mm_pc)
          => mm_pc' = (IF Len(oids) > 0 THEN "query" ELSE "plan")
    /\ (mm_pc = "query" /\ mm_pc' # mm_pc) => mm_pc' = "plan"
    /\ (mm_pc = "plan" /\ mm_pc' # mm_pc) => mm_pc' = "place"
    /\ (mm_pc = "place" /\ mm_pc' # mm_pc) => mm_pc' = "sleep"
    /\ (mm_pc = "sleep" /\ mm_pc' # mm_pc) => mm_pc' = "cancel"
    /\ (Len(book') > Len(book) \/ oids' # oids) => (mm_pc = "place" /\ mm_pc' = "sleep")
    /\ (bins' # bins \/ nr' # nr) => (mm_pc = "plan" /\ mm_pc' = "place")
    /\ filled_status' # filled_status => mm_pc = "query"
    /\ (\E o \in DOMAIN book : Resting(o) /\ book'[o].status = "canceled")
          => mm_pc = "cancel"

C3_RoundOrder == [][C3_Step]_vars

\* C3 witness: a second round has placed its batch after a fill query that
\* returned fills.
C3_Witness ==
    /\ mm_pc = "sleep"
    /\ round_index = 2
    /\ Len(filled_status) > 0
    /\ Len(oids) > 0
    /\ \A k \in 1..Len(oids) : book[oids[k]].round = 1

RECURSIVE SumOver(_, _, _)
SumOver(fs, S, field) ==
    IF S = {} THEN 0
    ELSE LET k == CHOOSE x \in S : TRUE
         IN  fs[k][field] + SumOver(fs, S \ {k}, field)

FillsOfSide(fs, side) == {k \in DOMAIN fs : fs[k].side = side}

\* C4: the settlement step changes inventory_amount by the BUY sizes minus the
\* SELL sizes and quote_amount by the SELL quote values minus the BUY quote
\* values of the fills the query returned; with no stored oids (no query) or no
\* fill returned, and in every other step, both balances are unchanged.
C4_Step ==
    /\ (mm_pc = "query" /\ mm_pc' = "plan") =>
          /\ inventory_amount' - inventory_amount =
                SumOver(filled_status', FillsOfSide(filled_status', "BUY"), "size")
                - SumOver(filled_status', FillsOfSide(filled_status', "SELL"), "size")
          /\ quote_amount' - quote_amount =
                SumOver(filled_status', FillsOfSide(filled_status', "SELL"), "quote_size")
                - SumOver(filled_status', FillsOfSide(filled_status', "BUY"), "quote_size")
          /\ filled_status' = <<>> =>
                (inventory_amount' = inventory_amount /\ quote_amount' = quote_amount)
    /\ (mm_pc = "cancel" /\ mm_pc' # mm_pc /\ Len(oids) = 0) => mm_pc' = "plan"
    /\ mm_pc # "query" =>
          (inventory_amount' = inventory_amount /\ quote_amount' = quote_amount)

C4_Settlement == [][C4_Step]_vars

\* C4 witness: the first settlement found a BUY and a SELL fill and moved both
\* balances by them.
C4_Witness ==
    /\ mm_pc = "plan"
    /\ round_index = 1
    /\ \E b, a \in DOMAIN filled_status :
          /\ filled_status[b].side = "BUY"
          /\ filled_status[a].side = "SELL"
          /\ Len(filled_status) = 2
          /\ inventory_amount = MMConfig.init_inventory_amount
                                + filled_status[b].size - filled_status[a].size
          /\ quote_amount = MMConfig.init_quote_amount
                            + filled_status[a].quote_size - filled_status[b].quote_size
          /\ quote_amount # MMConfig.init_quote_amount

(***************************************************************************)
(* Properties of the passive hedger                                        *)
(***************************************************************************)
\* C1: whenever the passive task is in its refresh sleep, is_on_p_hedge is true
\* exactly when passive_hedge_sp_orderId is set.
C1_FlagIffStopLoss ==
    ph_pc = "sleep" => (is_on_p_hedge <=> passive_hedge_sp_orderId # None)

\* C1 witness: the task sleeps after a full cycle: a trigger filled, the
\* stop-loss was placed and has filled, and the flag and the id are cleared.
C1_Witness ==
    /\ ph_pc = "sleep"
    /\ ~is_on_p_hedge
    /\ passive_hedge_sp_orderId = None
    /\ \E o \in DOMAIN pbook : pbook[o].kind = "sp" /\ pbook[o].status = "FILLED"

\* C5: in a step taken while is_on_p_hedge is true, the only order the task
\* places is the stop-loss that follows the entry; no long or short entry
\* trigger is placed or attempted.
C5_Step ==
    is_on_p_hedge =>
        /\ Len(pbook') > Len(pbook) =>
              /\ pbook'[Len(pbook')].kind = "sp"
              /\ ph_pc \in {"sp_long", "sp_short"}
              /\ passive_hedge_sp_orderId = None
        /\ passive_hedge_long_orderId' \in {passive_hedge_long_orderId, None}
        /\ passive_hedge_short_orderId' \in {passive_hedge_short_orderId, None}

C5_NoEntryWhileTriggered == [][C5_Step]_vars

\* C5 witness: the task has spent a whole tick in the TRIGGERED state: the
\* stop-loss is the last order it placed and it sleeps again.
C5_Witness ==
    /\ is_on_p_hedge
    /\ ph_pc = "sleep"
    /\ ph_ticks >= 2
    /\ passive_hedge_sp_orderId = Len(pbook)
    /\ pbook[Len(pbook)].kind = "sp"
    /\ pbook[Len(pbook)].status = "NEW"

\* C13: a cancel that fails during the refresh ends the passive task; from then
\* on the task places no trigger order and gives no order id a new value.
C13_Step ==
    /\ (/\ ph_pc = "c_long" /\ passive_hedge_long_orderId # None
        /\ pbook' = pbook /\ ph_pc' # ph_pc)
          => (ph_pc' = "dead" /\ ph_fault' = "cancel")
    /\ (/\ ph_pc = "c_short" /\ passive_hedge_short_orderId # None
        /\ pbook' = pbook /\ ph_pc' # ph_pc)
          => (ph_pc' = "dead" /\ ph_fault' = "cancel")
    /\ ph_fault = "cancel" =>
          /\ ph_pc = "dead" /\ ph_pc' = "dead"
          /\ Len(pbook') = Len(pbook)
          /\ UNCHANGED <<passive_hedge_long_orderId, passive_hedge_short_orderId,
                         passive_hedge_sp_orderId>>

C13_CancelFailureStopsTask == [][C13_Step]_vars

\* C13 witness: the refresh cancelled the long trigger, the cancel of the short
\* trigger failed because it had filled, and the task has ended.
C13_Witness ==
    /\ ph_fault = "cancel"
    /\ ph_pc = "dead"
    /\ passive_hedge_long_orderId > 0
    /\ pbook[passive_hedge_long_orderId].status = "CANCELED"
    /\ passive_hedge_short_orderId > 0
    /\ pbook[passive_hedge_short_orderId].status = "FILLED"

\* C16: a status query that returns no record or a rejected trigger placement
\* does not end the passive task.
C16_TaskSurvivesVenueFailure == ph_fault \notin {"query", "int"}

(***************************************************************************)
(* Properties of the emit step                                             *)
(***************************************************************************)
\* the ladder interleaved SELL ask_0, BUY bid_0, SELL ask_1, BUY bid_1, ...,
\* each side continuing alone once the other has run out
RECURSIVE C19_Interleaved(_, _, _)
C19_Interleaved(asks, bids, i) ==
    IF i > Len(asks) /\ i > Len(bids) THEN <<>>
    ELSE (IF i <= Len(asks)
          THEN << [side |-> "SELL", size |-> asks[i][2], price |-> asks[i][1]] >>
          ELSE <<>>)
         \o (IF i <= Len(bids)
             THEN << [side |-> "BUY", size |-> bids[i][2], price |-> bids[i][1]] >>
             ELSE <<>>)
         \o C19_Interleaved(asks, bids, i + 1)

C19_Truncated(q, n) == SubSeq(q, 1, Min2(n, Len(q)))

\* C19: the batch of a round is the interleaved ladder truncated to
\* live_order_nums: every ask bin and every bid bin within the truncation is in
\* it, also when the sides have different lengths (stated for
\* live_order_nums >= 2, where the ladder itself respects the cap).
C19_EmitInterleaved ==
    (regime # "none" /\ cfg.live_order_nums >= 2) =>
        nr_orders(bins, cfg.live_order_nums)
            = C19_Truncated(C19_Interleaved(bins.asks, bins.bids, 1), cfg.live_order_nums)


(***************************************************************************)
(* Properties of the mm loop under venue failures                          *)
(***************************************************************************)
\* the cancel of the round did not go through although orders rest
C15_CancelFailed ==
    /\ mm_pc = "cancel" /\ mm_pc' # "cancel" /\ book' = book
    /\ \E o \in RestingIds : marketplace = "binance_spot" \/ o \in SeqToSet(oids)

\* the fill query failed: an empty reply although a queried order has filled
C15_QueryFailed ==
    /\ mm_pc = "query" /\ mm_pc' # "query"
    /\ filled_status' = <<>> /\ FillsOf(oids, 1) # <<>>

\* the venue rejected at least one order of the batch
C15_PlaceRejected ==
    /\ mm_pc = "place" /\ mm_pc' # "place"
    /\ Len(book') - Len(book) < Len(nr)

C15_Step ==
    /\ C15_CancelFailed => (/\ mm_pc' = IF Len(oids) > 0 THEN "query" ELSE "plan"
                        /\ UNCHANGED <<round_index, oids, inventory_amount, quote_amount>>)
    /\ C15_QueryFailed => (/\ mm_pc' = "plan"
                       /\ UNCHANGED <<round_index, oids, inventory_amount, quote_amount>>)
    /\ C15_PlaceRejected => (/\ mm_pc' = "sleep"
                         /\ round_index' = round_index + 1
                         /\ Len(oids') = Len(book') - Len(book))
    /\ (mm_pc = "sleep" /\ mm_pc' # "sleep") => mm_pc' = "cancel"

\* C15: a venue failure in the cancel, the fill query or the placement of a
\* round does not end the mm loop: the failed step moves on to the step that
\* follows it (a failed cancel is ignored, a failed query settles nothing, a
\* rejected order is left out of oids), the round completes and counts, and
\* the sleep is followed by the next round's cancel.
C15_RoundSurvivesVenueFailure ==
    [](mm_pc \in {"cancel", "query", "plan", "place", "sleep"}) /\ [][C15_Step]_vars

\* round 0's batch had a fill, round 1 did not settle it (its cancel or its
\* query failed) and had its whole batch rejected, and round 2 has started
C15_Witness ==
    /\ mm_pc = "cancel" /\ round_index = 2
    /\ oids = <<>> /\ nr # <<>>
    /\ \E o \in DOMAIN book : book[o].round = 0 /\ book[o].status = "filled"
    /\ \A o \in DOMAIN book : book[o].round = 0
    /\ inventory_amount = cfg.init_inventory_amount

(***************************************************************************)
(* Properties of the price feed and of vol_monitor                         *)
(***************************************************************************)
C11_Step ==
    (vm_ticks' = vm_ticks + 1) =>
        /\ vm_check' \in {"pass", "reject"}
        /\ vm_check' = "reject" <=>
              \/ spot_price = None
              \/ top_depth = <<>>
              \/ Div(Abs(r_aggr_price - r_mid_price), r_mid_price) >= Dec(2, 100)

\* C11: price_security_check returns false exactly when the aggregate price
\* or the mid price is missing or |aggr_price - mid_price| / mid_price >= 0.02,
\* and true otherwise (seen at every vol_monitor tick, on the prices the
\* connector holds at that tick).
C11_CheckRejectsExactly == [][C11_Step]_vars

\* a tick rejected prices that are both present and exactly 2% apart
C11_Witness ==
    /\ vm_ticks = 1 /\ vm_check = "reject"
    /\ spot_price = FP + 20 /\ top_depth = <<FP - 1, FP + 1>>

\* a monitor calls the venue: create_connection, or recv on its connection
C17_MonitorCalls(k) ==
    \/ feed_pc[k] = "connect" /\ feed_pc'[k] # "connect"
    \/ feed_pc[k] = "loop" /\ feed_pc'[k] = "backoff"
    \/ feed_pc[k] = "loop" /\ <<spot_price, top_depth>>' # <<spot_price, top_depth>>

C17_Step ==
    /\ feed_is_closed => \A k \in Monitors : ~C17_MonitorCalls(k)
    /\ is_closed => vm_ticks' = vm_ticks
    /\ (feed_is_closed => feed_is_closed') /\ (is_closed => is_closed')
    /\ ~is_hedge_live => ~is_hedge_live'

\* C17: once a loop's shutdown flag is set, the loop starts no further
\* iteration and issues no further venue operation (for the feed monitors: no
\* connection attempt and no recv once feed.is_closed is set; for vol_monitor:
\* no further tick once runner.is_closed is set), and no flag is ever reset.
C17_NoOperationAfterShutdown == [][C17_Step]_vars

(***************************************************************************)
(* Properties of the active hedger and of put_perp_gtx_order               *)
(***************************************************************************)
\* the tick at the head solves the short hedge and gets x <= 0
C12_SolveFails ==
    /\ ah_pc = "head" /\ is_hedge_live
    /\ h_iqv_move_ratio > hcfg.active_hedge_iqv_ratio
    /\ short_hedge_x <= 0

C12_Step ==
    (C12_SolveFails /\ ah_pc' # ah_pc) =>
        /\ aorders' = aorders /\ gtx'.pc = "idle"
        /\ ah_pc' = "sleep"

\* C12: a tick whose solve yields x <= 0 places no hedge order and the
\* active-hedge loop keeps running: the task goes to its sleep, from which it
\* evaluates again.
C12_FailedSolveSkipsTick == [][C12_Step]_vars

\* the unfilled amount the position delta gives
C18_DeltaUnfilled ==
    IF gtx.side = "BUY" THEN gtx.quantity - (perp_position - gtx.init_balance)
    ELSE gtx.quantity - (gtx.init_balance - perp_position)

\* the call is between its head and its return
C18_Running == gtx.pc \in {"init_fetch", "place", "wait", "requery"}

C18_Bound ==
    C18_Running =>
        /\ gtx.try_times <= gtx.max_try
        /\ gtx.pc = "place" => gtx.try_times < gtx.max_try
        /\ gtx.fetches < FetchTries

C18_Step ==
    (gtx.pc = "requery" /\ gtx'.pc # "requery") =>
        /\ gtx'.ret = "success" =>
              C18_DeltaUnfilled <= gtx_eps /\ gtx'.unfilled_amount = C18_DeltaUnfilled
        /\ (gtx'.pc = "place" \/ (gtx'.ret = "unfilled" /\ gtx.fetches + 1 < FetchTries)) =>
              C18_DeltaUnfilled > gtx_eps /\ gtx'.unfilled_amount = C18_DeltaUnfilled
        /\ gtx'.pc = "place" => gtx.try_times < gtx.max_try
        /\ gtx'.ret = "unfilled" =>
              \/ gtx.try_times >= gtx.max_try /\ gtx'.unfilled_amount = C18_DeltaUnfilled
              \/ gtx.fetches + 1 = FetchTries /\ gtx'.unfilled_amount = gtx.unfilled_amount
        /\ gtx'.pc \in {"place", "returned"}

C20_PassiveFields ==
    <<p_hedge_long_trigger_price, p_hedge_short_trigger_price, passive_hedge_size,
      passive_hedge_long_orderId, passive_hedge_short_orderId,
      passive_hedge_sp_orderId, is_on_p_hedge>>

\* the fields of the hedger no task writes after the constructor
C20_FixedFields == <<hcfg, h_init_iqv_ratio, is_hedge_live>>

C20_ActiveStep == ah_pc' # ah_pc \/ gtx' # gtx

C20_PassiveStep == ph_pc' # ph_pc

C20_PushStep == snapVars' # snapVars

C20_Step ==
    /\ C20_ActiveStep =>
          UNCHANGED <<C20_PassiveFields, snapVars, C20_FixedFields>>
    /\ C20_PassiveStep =>
          UNCHANGED <<active_hedge_size, snapVars, C20_FixedFields>>
    /\ C20_PushStep =>
          UNCHANGED <<C20_PassiveFields, active_hedge_size, C20_FixedFields>>
    /\ active_hedge_size' # active_hedge_size => C20_ActiveStep
    /\ C20_PassiveFields' # C20_PassiveFields => C20_PassiveStep
    /\ is_on_p_hedge' # is_on_p_hedge => ~C20_ActiveStep /\ ~C20_PushStep

C20_WriteOwnership == [][C20_Step]_vars

\* every task has written: the passive hedge is on with its stop resting, an
\* active hedge came back unfilled, and mm pushed a moved portfolio, after
\* the active task went through a sleep
C20_Witness ==
    /\ is_on_p_hedge
    /\ passive_hedge_sp_orderId > 0
    /\ active_hedge_size # 0
    /\ h_iqv_move_ratio # 0
    /\ ah_ticks > 0

(***************************************************************************)
(* C14.  main supervises the core tasks: once one of them has failed with  *)
(* an unhandled error, main has ended with it, or stands where the failure *)
(* still reaches it: at the gather, or before it while the feed can still  *)
(* deliver the prices the wait in initialize_clients asks for.             *)
(***************************************************************************)
\* a core task ended with an exception that left its coroutine
C14_TaskFailed == lp_pc = "raised" \/ vm_pc = "raised"

\* the stream of k has delivered, or a task exists that may still deliver it
C14_PriceComes(k) ==
    \/ k = "spot" /\ ~Falsy(r_aggr_price)
    \/ k = "depth" /\ ~Falsy(r_mid_price)
    \/ feed_pc[k] \in {"connect", "loop", "backoff"}
    \/ feed_pc[k] = "new" /\ lp_pc = "new"

\* main waits in initialize_clients for a price that no task will deliver
C14_MainHung ==
    /\ main_pc \in {"start", "wait_price"}
    /\ \E k \in Monitors : ~C14_PriceComes(k)

C14_FailureEndsMain == C14_TaskFailed => ~C14_MainHung

(***************************************************************************)
(* Properties of the ticks of the passive hedger                           *)
(***************************************************************************)
\* the status query of the entry trigger under id answers FILLED in this step
C21_FilledReply(at, id) ==
    /\ ph_pc = at /\ ph_pc' # ph_pc
    /\ ~is_on_p_hedge
    /\ id > 0 /\ pbook[id].status = "FILLED"
    /\ ph_fault' # "query"

\* the venue accepts the stop-loss this step places
C21_StopAccepted(at) == ph_pc = at /\ Len(pbook') = Len(pbook) + 1

C21_StopIs(side, trigger) ==
    /\ pbook'[Len(pbook')].kind = "sp"
    /\ pbook'[Len(pbook')].side = side
    /\ pbook'[Len(pbook')].trigger = trigger
    /\ pbook'[Len(pbook')].qty = passive_hedge_size
    /\ passive_hedge_sp_orderId' = Len(pbook')
    /\ ph_pc' = "head"
    /\ UNCHANGED <<passive_hedge_size, p_hedge_long_trigger_price,
                   p_hedge_short_trigger_price, passive_hedge_long_orderId,
                   passive_hedge_short_orderId, is_on_p_hedge>>

C21_Step ==
    /\ C21_FilledReply("q_long", passive_hedge_long_orderId) =>
          /\ hcfg.dual_sided_hedge
          /\ is_on_p_hedge' /\ passive_hedge_long_orderId' = None
          /\ ph_filled_price' = pbook[passive_hedge_long_orderId].avgPrice
          /\ ph_pc' = "sp_long"
    /\ C21_FilledReply("q_short", passive_hedge_short_orderId) =>
          /\ is_on_p_hedge' /\ passive_hedge_short_orderId' = None
          /\ ph_filled_price' = pbook[passive_hedge_short_orderId].avgPrice
          /\ ph_pc' = "sp_short"
    /\ C21_StopAccepted("sp_long") =>
          C21_StopIs("SELL", Mul(ph_filled_price, FP - hcfg.passive_hedge_sp_ratio))
    /\ C21_StopAccepted("sp_short") =>
          C21_StopIs("BUY", Mul(ph_filled_price, FP + hcfg.passive_hedge_sp_ratio))

\* C21: in a tick with is_on_p_hedge false, a long trigger (dual-sided only)
\* that the venue reports FILLED makes the task set is_on_p_hedge, clear the
\* long oid and place a SELL stop-loss at filled_price * (1 - sp_ratio) for
\* passive_hedge_size, whose id it stores as the stop-loss oid; a FILLED short
\* trigger does the same with a BUY stop-loss at filled_price * (1 + sp_ratio)
\* and the short oid; the tick then ends with no refresh and no re-arm.
C21_TriggerFillTransition == [][C21_Step]_vars

\* iqv_move_ratio is inside the refresh band
C22_InBand ==
    /\ -hcfg.passive_hedge_refresh_iqv_ratio <= h_iqv_move_ratio
    /\ h_iqv_move_ratio <= hcfg.passive_hedge_refresh_iqv_ratio

\* the entry triggers that rest on the hedge venue after the step
C22_RestingEntriesAfter ==
    {o \in DOMAIN pbook' : pbook'[o].kind \in {"long", "short"} /\ pbook'[o].status = "NEW"}

\* the step cancels the trigger under id, or ends the task
C22_Cancels(at, id) ==
    (ph_pc = at /\ ph_pc' # ph_pc /\ id # None) =>
        \/ ph_pc' = "dead"
        \/ pbook'[id].status = "CANCELED"

C22_Step ==
    /\ (ph_pc = "decide" /\ ph_pc' # ph_pc /\ C22_InBand) =>
          /\ ~is_on_p_hedge
          /\ p_hedge_long_trigger_price' = Mul(h_price, FP + hcfg.passive_hedge_ratio)
          /\ p_hedge_short_trigger_price' = Mul(h_price, FP - hcfg.passive_hedge_ratio)
          /\ passive_hedge_size' = Mul(h_cur_inventory_amount, hcfg.passive_hedge_proportion)
          /\ ph_pc' = "c_long"
    /\ C22_Cancels("c_long", passive_hedge_long_orderId)
    /\ C22_Cancels("c_short", passive_hedge_short_orderId)
    /\ (ph_pc = "c_short" /\ ph_pc' \notin {ph_pc, "dead"}) =>
          ph_pc' = IF hcfg.dual_sided_hedge THEN "p_long" ELSE "p_short"
    /\ (ph_pc = "p_long" /\ Len(pbook') = Len(pbook) + 1) =>
          /\ pbook'[Len(pbook')] = NewTrigger("long", "BUY", passive_hedge_size,
                                              p_hedge_long_trigger_price)
          /\ passive_hedge_long_orderId' = Len(pbook')
          /\ ph_pc' = "p_short"
    /\ (ph_pc = "p_short" /\ Len(pbook') = Len(pbook) + 1) =>
          /\ pbook'[Len(pbook')] = NewTrigger("short", "SELL", passive_hedge_size,
                                              p_hedge_short_trigger_price)
          /\ passive_hedge_short_orderId' = Len(pbook')
          /\ ph_pc' = "sleep"
          /\ C22_RestingEntriesAfter \subseteq
                {passive_hedge_long_orderId', passive_hedge_short_orderId'}
          /\ ~hcfg.dual_sided_hedge => passive_hedge_long_orderId' = None

\* C22: a tick with is_on_p_hedge false, no trigger filled and iqv_move_ratio
\* inside the refresh band sets the trigger prices to price * (1 + ratio) and
\* price * (1 - ratio) and passive_hedge_size to cur_inventory * proportion,
\* cancels every trigger it holds an oid of (or ends on a failed cancel), and
\* places a BUY long trigger only when dual-sided and a SELL short trigger
\* always; the oids stored after the tick are those of the orders it placed,
\* and no other entry trigger rests on the venue.
C22_Refresh == [][C22_Step]_vars

\* C22 witness: a dual-sided hedger sleeps after its second refresh: the two
\* triggers of the first are cancelled and the stored oids are the two new ones.
C22_Witness ==
    /\ ph_pc = "sleep" /\ ~is_on_p_hedge /\ hcfg.dual_sided_hedge
    /\ Len(pbook) = 4
    /\ pbook[1].status = "CANCELED" /\ pbook[2].status = "CANCELED"
    /\ passive_hedge_long_orderId = 3 /\ passive_hedge_short_orderId = 4
    /\ pbook[3].status = "NEW" /\ pbook[4].status = "NEW"
    /\ pbook[4].qty = round_qty(passive_hedge_size)

\* a trigger the hedger requires has no oid after the step
C23_MissingAfter ==
    \/ passive_hedge_short_orderId' = None
    \/ hcfg.dual_sided_hedge /\ passive_hedge_long_orderId' = None

\* the step ends a tick that took the branch outside the refresh band
C23_EndsRearmTick ==
    /\ ph_pc \in {"decide", "rearm_long", "rearm_short"}
    /\ ~C22_InBand
    /\ ph_pc' = "sleep"

C23_Step ==
    /\ C23_EndsRearmTick => ~C23_MissingAfter
    /\ (ph_pc = "rearm_long" /\ Len(pbook') = Len(pbook) + 1) =>
          /\ hcfg.dual_sided_hedge /\ passive_hedge_long_orderId = None
          /\ pbook'[Len(pbook')].trigger = p_hedge_long_trigger_price
          /\ passive_hedge_long_orderId' = Len(pbook')
    /\ (ph_pc = "rearm_short" /\ Len(pbook') = Len(pbook) + 1) =>
          /\ passive_hedge_short_orderId = None
          /\ pbook'[Len(pbook')].trigger = p_hedge_short_trigger_price
          /\ passive_hedge_short_orderId' = Len(pbook')
    /\ (ph_pc \in {"rearm_long", "rearm_short"} /\ ph_pc' # ph_pc) =>
          UNCHANGED <<p_hedge_long_trigger_price, p_hedge_short_trigger_price,
                      passive_hedge_size>>

\* C23: a tick with is_on_p_hedge false, no trigger filled and iqv_move_ratio
\* outside the refresh band re-arms every required trigger that is missing
\* (the short one always, the long one when dual-sided) at the trigger price
\* it has, so that when the tick ends every required trigger has an oid.
C23_Rearm == [][C23_Step]_vars

\* the status query of the stop-loss order is answered in this step
C24_StopReply ==
    /\ ph_pc = "q_sp" /\ ph_pc' # ph_pc
    /\ passive_hedge_sp_orderId > 0
    /\ ph_fault' \notin {"query", "int"}

C24_Step ==
    /\ ph_pc = "q_sp" => is_on_p_hedge
    /\ (C24_StopReply /\ pbook[passive_hedge_sp_orderId].status = "FILLED") =>
          /\ ~is_on_p_hedge' /\ passive_hedge_sp_orderId' = None
          /\ pbook' = pbook
          /\ ph_pc' = "sleep"
          /\ UNCHANGED <<passive_hedge_long_orderId, passive_hedge_short_orderId,
                         passive_hedge_size, p_hedge_long_trigger_price,
                         p_hedge_short_trigger_price>>
    /\ (C24_StopReply /\ pbook[passive_hedge_sp_orderId].status # "FILLED") =>
          /\ UNCHANGED <<C20_PassiveFields, pbook>>
          /\ ph_pc' = "sleep"
    /\ (ph_pc = "head" /\ ph_pc' # ph_pc /\ is_hedge_live) =>
          IF is_on_p_hedge THEN ph_pc' = "q_sp"
          ELSE ph_pc' \in {"q_long", "q_short", "decide"}
    /\ (ph_pc = "sleep" /\ ph_pc' # ph_pc) =>
          /\ ph_pc' = "head"
          /\ UNCHANGED <<C20_PassiveFields, pbook>>

\* C24: in a tick with is_on_p_hedge true, a stop-loss order the venue
\* reports FILLED makes the task clear is_on_p_hedge and the stop-loss oid,
\* place no order and go to its sleep, and the tick after the sleep runs the
\* not-on-hedge logic; a stop-loss that is not FILLED leaves the hedge state
\* as it is.
C24_StopLossExit == [][C24_Step]_vars

\* C24 witness: the tick after a stop-loss exit is in the not-on-hedge logic
C24_Witness ==
    /\ ph_pc \in {"q_long", "q_short", "decide"}
    /\ ~is_on_p_hedge /\ passive_hedge_sp_orderId = None
    /\ \E o \in DOMAIN pbook :
          /\ pbook[o].kind = "sp" /\ pbook[o].status = "FILLED"
          /\ \A n \in DOMAIN pbook : n <= o

\* how many of the three order ids the step changes
C25_Changes ==
    (IF passive_hedge_long_orderId' # passive_hedge_long_orderId THEN 1 ELSE 0)
    + (IF passive_hedge_short_orderId' # passive_hedge_short_orderId THEN 1 ELSE 0)
    + (IF passive_hedge_sp_orderId' # passive_hedge_sp_orderId THEN 1 ELSE 0)

\* the task stands after a step of this tick that changed an order id: the
\* status query that cleared the oid of a filled trigger, or the placement of
\* the long trigger in a dual-sided refresh
C25_ChangedInTick ==
    \/ ph_pc \in {"sp_long", "sp_short"}
    \/ ph_pc = "p_short" /\ hcfg.dual_sided_hedge /\ passive_hedge_long_orderId = Len(pbook)
                         /\ Len(pbook) > 0

\* C25 as stated: once an order id has changed in a tick, no order id changes
\* in the rest of that tick.
C25_AtMostOneAsStated == [][C25_ChangedInTick => C25_Changes = 0]_vars

C25_Step ==
    /\ C25_Changes <= 1
    /\ C25_Changes = 1 =>
          /\ ph_pc \in {"q_long", "q_short", "sp_long", "sp_short", "p_long", "p_short",
                        "rearm_long", "rearm_short", "q_sp"}
          /\ ph_pc' = CASE ph_pc = "q_long" -> "sp_long"
                        [] ph_pc = "q_short" -> "sp_short"
                        [] ph_pc = "p_long" -> "p_short"
                        [] ph_pc \in {"sp_long", "sp_short"} -> "head"
                        [] OTHER -> "sleep"
    /\ (ph_pc' = "sp_long" /\ ph_pc # ph_pc') => ph_pc = "q_long" /\ C25_Changes = 1
    /\ (ph_pc' = "sp_short" /\ ph_pc # ph_pc') => ph_pc = "q_short" /\ C25_Changes = 1
    /\ (ph_pc' = "p_short" /\ ph_pc # ph_pc') => ph_pc \in {"c_short", "p_long"}
    /\ (ph_pc \in {"sp_long", "sp_short", "p_short"} /\ ph_pc' # ph_pc) =>
          ph_pc' \in {"head", "sleep"}

\* C25 amended: no step of a tick changes more than one order id, and a tick
\* has at most two steps that change one: the clearing of a filled trigger's
\* oid followed by the stop-loss placement, or the long placement of a
\* dual-sided refresh followed by the short placement; any other step that
\* changes an order id is the last of its tick.  So at most two of the three
\* order ids change in a tick, never all three.
C25_AtMostTwoPerTick == [][C25_Step]_vars

\* C25 witness: a tick changed two order ids: the short trigger's oid is
\* cleared and the stop-loss oid set, the tick is over and the long trigger
\* keeps its oid
C25_Witness ==
    /\ ph_pc = "head" /\ is_on_p_hedge
    /\ passive_hedge_short_orderId = None
    /\ passive_hedge_sp_orderId = Len(pbook) /\ Len(pbook) > 0
    /\ pbook[Len(pbook)].side = "BUY"
    /\ passive_hedge_long_orderId > 0

\* the one-sided hedger holds the oid of a long trigger it has cancelled
C26_StaleLong ==
    /\ ~hcfg.dual_sided_hedge
    /\ passive_hedge_long_orderId > 0
    /\ pbook[passive_hedge_long_orderId].status = "CANCELED"

C26_Step ==
    ~hcfg.dual_sided_hedge =>
        /\ passive_hedge_long_orderId' = passive_hedge_long_orderId
        /\ Len(pbook') > Len(pbook) => pbook'[Len(pbook')].kind # "long"
        /\ ph_pc' \notin {"q_long", "sp_long", "p_long", "rearm_long"}
        /\ (/\ ph_pc = "c_long" /\ ph_pc' = "c_short"
            /\ passive_hedge_long_orderId > 0) =>
              pbook'[passive_hedge_long_orderId].status = "CANCELED"

\* C26: a hedger that is not dual-sided never places a BUY entry trigger and
\* never sets the long trigger oid; if the long oid is set all the same, the
\* next refresh cancels that order, and no later refresh fails because of it:
\* the task does not end on the cancel of a long trigger it already cancelled.
C26_LongOnlyWhenDual ==
    /\ [](C26_StaleLong => ph_fault # "cancel")
    /\ [][C26_Step]_vars

(***************************************************************************)
(* Properties of the ticks of the active hedger                            *)
(***************************************************************************)
\* a tick of active_hedge_monitor leaves the head of its loop with the flag up
C27_TickStep == ah_pc = "head" /\ ah_pc' # "head" /\ is_hedge_live

\* the tick reads a move ratio below the activation band
C27_BelowBand == h_iqv_move_ratio < -hcfg.active_hedge_iqv_ratio

C27_Step ==
    (C27_TickStep /\ C27_BelowBand) =>
        /\ ah_pc' \in {"gtx", "sleep"}
        /\ IF hcfg.dual_sided_hedge
           THEN /\ long_hedge_x > 0
                /\ ah_execute_size' = long_hedge_x - active_hedge_size
           ELSE /\ ah_pc' = "sleep"
                /\ aorders' = aorders
                /\ gtx' = gtx

\* C27: a tick that reads iqv_move_ratio < -active_hedge_iqv_ratio solves
\* x = (N*i*q + N*q - i*p)/p and targets a long hedge of x when the hedger is
\* dual-sided, places no order when it is not, and in both cases goes on to
\* the rest of its iteration: the task does not end in that tick.
C27_LongBranch == [][C27_Step]_vars

\* x_signed of the tick: -x above the activation band, +x below it, 0 inside
C28_Signed ==
    IF h_iqv_move_ratio > hcfg.active_hedge_iqv_ratio THEN -short_hedge_x
    ELSE IF h_iqv_move_ratio < -hcfg.active_hedge_iqv_ratio THEN long_hedge_x
    ELSE 0

C28_Delta == C28_Signed - active_hedge_size

C28_Step ==
    C27_TickStep =>
        /\ ah_execute_size' = C28_Delta
        /\ (ah_pc' = "gtx") <=> (Abs(C28_Delta) >= hcfg.min_hedge_order_size)

\* C28: on every tick of active_hedge_monitor the size to execute is
\* x_signed - active_hedge_size, and put_perp_gtx_order is called if and only
\* if its absolute value is at least min_hedge_order_size.
C28_ExecuteSize == [][C28_Step]_vars

\* put_perp_gtx_order has returned and the tick goes on after it
C29_ResumeStep == ah_pc = "gtx" /\ gtx.pc = "returned" /\ ah_pc' # "gtx"

\* the order the step sent to the hedge venue, if it sent one
C29_Sent == aorders'[Len(aorders')]

C29_Step ==
    C29_ResumeStep =>
        /\ (gtx.ret = "success") => (aorders' = aorders /\ ah_pc' = "sleep")
        /\ (aorders' # aorders) =>
              /\ gtx.unfilled_amount > 0
              /\ C29_Sent.type = "MARKET"
              /\ C29_Sent.quantity = gtx.unfilled_amount

\* C29: once put_perp_gtx_order has returned, a market order reaches the
\* venue only when the call left an unfilled amount above 0 and is for that
\* amount; after a call that filled completely no market order is sent and
\* the tick goes on to its sleep.
C29_MarketAfterGTX == [][C29_Step]_vars

(***************************************************************************)
(* Properties of a round of mm on a price that is not positive             *)
(***************************************************************************)
\* step 5 of a round acts on a mid price that is not positive
C30_BadPlanStep == mm_pc = "plan" /\ mm_pc' # "plan" /\ r_mid_price <= 0

C30_Step ==
    C30_BadPlanStep =>
        /\ bins' = [bids |-> <<>>, asks |-> <<>>]
        /\ mm_pc' = "place"

\* C30: when step 5 calls compute_current_bins with a price <= 0 the planner
\* leaves an empty ladder for the round and mm goes on to step 6 and its
\* next round.
C30_InvalidPrice == [][C30_Step]_vars

(***************************************************************************)
(* Properties of the ticks of vol_monitor                                  *)
(***************************************************************************)
\* an iteration of vol_monitor that found the runner open
C31_TickStep == vm_pc = "sleep" /\ vm_ticks' = vm_ticks + 1

C31_Step ==
    C31_TickStep =>
        IF price_security_check
        THEN /\ vol_his_price' = deque_append(vol_his_price, r_aggr_price, VolLimit)
             /\ vc_series' = vol_his_price'
             /\ vol_arg' # NoArg
             /\ vol' = vol_arg'
             /\ vm_pc' = "sleep"
        ELSE /\ UNCHANGED <<vol_his_price, vc_series, vol, vol_arg>>
             /\ vm_pc' = "sleep"

\* C31: a tick of vol_monitor on which price_security_check passes appends
\* the aggregate price to the bounded history, runs the estimator on the
\* history, hands the estimator's volatility to the strategy through
\* update_vol and goes on to its next sleep; a tick on which the check fails
\* leaves the history, the estimator's series and the strategy's vol alone.
C31_VolTick == [][C31_Step]_vars

(***************************************************************************)
(* Properties of the passive hedger's orders on the hedge venue            *)
(***************************************************************************)
\* the entry triggers the venue has filled
C32_FilledEntries ==
    {o \in DOMAIN pbook : pbook[o].kind \in {"long", "short"} /\ pbook[o].status = "FILLED"}

\* the stop-loss orders the venue has accepted
C32_StopLosses == {o \in DOMAIN pbook : pbook[o].kind = "sp"}

\* the trigger order id names has filled on the venue
C32_Filled(id) == id \notin {None, ErrText} /\ pbook[id].status = "FILLED"

\* a step of the task on a filled trigger that ends the task in its except
\* clause: the status check's quantity assert, or the refresh's cancel assert
\* on the order that has filled since the status check
C32_FillEndsTask ==
    /\ ph_pc' = "dead"
    /\ Cardinality(C32_StopLosses) < Cardinality(C32_FilledEntries)
    /\ \/ ph_pc = "q_long" /\ C32_Filled(passive_hedge_long_orderId) /\ ph_fault' = "qty"
       \/ ph_pc = "q_short" /\ C32_Filled(passive_hedge_short_orderId) /\ ph_fault' = "qty"
       \/ ph_pc = "c_long" /\ C32_Filled(passive_hedge_long_orderId) /\ ph_fault' = "cancel"
       \/ ph_pc = "c_short" /\ C32_Filled(passive_hedge_short_orderId) /\ ph_fault' = "cancel"

\* C32: a trigger order that fills is followed by its stop-loss and the
\* TRIGGERED state in every interleaving of venue fills with the task's
\* steps: no step the task takes on a filled trigger ends the task before a
\* stop-loss for it is placed.
C32_FillReachesStopLoss == [][~C32_FillEndsTask]_vars

\* the three order ids the passive hedger keeps
C33_Oids ==
    {passive_hedge_long_orderId, passive_hedge_short_orderId, passive_hedge_sp_orderId}

\* C33: each of the long trigger oid, the short trigger oid and the stop-loss
\* oid is None or the id of an order the hedge venue accepted; a rejected
\* placement leaves no value in them that a later tick takes for an order.
C33_OidsAreAccepted == \A id \in C33_Oids : id = None \/ id \in DOMAIN pbook

\* the task calls put_perp_trigger_order for an entry trigger
C34_PlacesLong == ph_pc \in {"p_long", "rearm_long"} /\ ph_pc' # ph_pc

C34_PlacesShort == ph_pc \in {"p_short", "rearm_short"} /\ ph_pc' # ph_pc

C34_Step ==
    /\ C34_PlacesLong => (passive_hedge_size > 0 /\ p_hedge_long_trigger_price > 0)
    /\ C34_PlacesShort => (passive_hedge_size > 0 /\ p_hedge_short_trigger_price > 0)

\* C34: the passive task asks the venue for an entry trigger only after a
\* refresh has set its trigger price and passive_hedge_size: no entry trigger
\* is requested with trigger price 0 or size 0, also when the first tick
\* reads an iqv_move_ratio outside the refresh band.
C34_NoTriggerBeforeRefresh == [][C34_Step]_vars

\* the orders of the passive hedger that rest on the hedge venue
C35_Resting == {o \in DOMAIN pbook : pbook[o].status = "NEW"}

\* TRIGGERED, with the stop-loss placement of the fill's tick behind it
C35_Triggered == is_on_p_hedge /\ ph_pc \in {"head", "q_sp", "sleep"}

\* C35: while is_on_p_hedge is true and the stop-loss has been placed, the
\* stop-loss is the only order of the passive hedger that rests on the hedge
\* venue; no entry trigger rests next to it.
C35_OnlyStopLossRests == C35_Triggered => C35_Resting \subseteq {passive_hedge_sp_orderId}

(***************************************************************************)
(* Properties of active_hedge_size and of the orders of the active hedger  *)
(***************************************************************************)
\* a tick of active_hedge_monitor stores active_hedge_size and goes to sleep
C36_TickEnds == ah_pc \in {"head", "gtx"} /\ ah_pc' = "sleep"

C36_Step ==
    C36_TickEnds =>
        active_hedge_size' = IF ah_pc = "gtx"
                             THEN active_hedge_size + ah_execute_size
                             ELSE active_hedge_size

\* C36: after every tick active_hedge_size is the standing signed hedge, the
\* sum of the deltas the hedger has executed: a tick that executed a delta
\* adds it to active_hedge_size, a tick that executed nothing leaves
\* active_hedge_size as it was.
C36_StandingHedge == [][C36_Step]_vars

\* C37: while the portfolio stays as it is, above the activation threshold,
\* the active hedger attempts hedge orders on at most one tick: the first one;
\* on every later tick delta is 0 and put_perp_gtx_order is not called.
C37_OneExecutingTick == ah_pc = "gtx" => ah_ticks = 0

\* a tick calls put_perp_gtx_order
C38_Calls == ah_pc = "head" /\ ah_pc' = "gtx"

\* put_perp_gtx_order reports success
C38_Succeeds == gtx.ret # "success" /\ gtx'.ret = "success"

\* what the position has moved in the direction of the call
C38_MovedBy ==
    IF gtx.side = "BUY" THEN perp_position - gtx.init_balance
    ELSE gtx.init_balance - perp_position

C38_Step ==
    /\ C38_Calls =>
          /\ gtx'.side = (IF ah_execute_size' > 0 THEN "BUY" ELSE "SELL")
          /\ gtx'.quantity > 0
          /\ gtx'.quantity = round_qty(Abs(ah_execute_size'))
    /\ (ah_pc = "gtx" /\ C38_Succeeds) =>
          /\ gtx.quantity > 0
          /\ C38_MovedBy >= gtx.quantity - gtx_eps

\* C38: every call of put_perp_gtx_order by the active hedger is for side
\* SELL when delta < 0 and BUY when delta > 0 with the positive quantity
\* |delta|, and the call reports success only when the position has moved by
\* that quantity in the direction of the order.
C38_OrderSideAndQuantity == [][C38_Step]_vars

(***************************************************************************)
(* Properties of the settlement of fills over the rounds of mm             *)
(***************************************************************************)
\* the ladder orders the venue has filled
C39_Filled == {o \in DOMAIN book : book[o].status = "filled"}

\* the orders the fill query of the round has reported
C39_Replied == {filled_status[k].oid : k \in DOMAIN filled_status}

\* the filled orders that are among the stored oids and have not been
\* settled: all of them until the query of the round has been made, those the
\* query did not report from then until step 6 replaces the oids
C39_Pending ==
    IF mm_pc \in {"plan", "place"}
    THEN (C39_Filled \cap SeqToSet(oids)) \ C39_Replied
    ELSE C39_Filled \cap SeqToSet(oids)

C39_Side(S, side) == {o \in S : book[o].side = side}

\* the balances with every fill of S added once
C39_InventoryWith(S) ==
    cfg.init_inventory_amount + SumOver(book, C39_Side(S, "BUY"), "size")
                              - SumOver(book, C39_Side(S, "SELL"), "size")

C39_QuoteWith(S) ==
    cfg.init_quote_amount + SumOver(book, C39_Side(S, "SELL"), "quote_size")
                          - SumOver(book, C39_Side(S, "BUY"), "quote_size")

\* C39: every fill of a ladder order is in inventory_amount and quote_amount
\* exactly once, or its order is still among the stored oids and not yet
\* settled: the balances are the initial ones plus all fills but those.
C39_NoFillLost ==
    /\ inventory_amount = C39_InventoryWith(C39_Filled \ C39_Pending)
    /\ quote_amount = C39_QuoteWith(C39_Filled \ C39_Pending)

\* the total size of the emitted asks and the total size*price of the emitted bids
C40_AskSum == SumTo([k \in 1..Len(bins.asks) |-> bins.asks[k][2]], Len(bins.asks))

C40_BidCost ==
    SumTo([k \in 1..Len(bins.bids) |-> Mul(bins.bids[k][2], bins.bids[k][1])], Len(bins.bids))

\* C40: the ladder compute_current_bins stored commits no more than the
\* balances it was computed from: the ask sizes sum to at most
\* cur_inventory_amount and the bids' size*price to at most cur_quote_amount
\* (positive price, balances >= 0, all three regimes, sizes raised to
\* min_order_size included).
C40_WithinBalances ==
    regime # "none" =>
        /\ C40_AskSum <= cur_inventory_amount
        /\ C40_BidCost <= cur_quote_amount

====
